---- MODULE Spec2Model ----
(***************************************************************************)
(* Bank reconciliation matcher of invoice-finder (src/src/reconcile.js),   *)
(* the duplicate check and the registry read of src/src/sheets.js, and the *)
(* statement parsers of src/src/bank_parser.js.  A behaviour is one call   *)
(* of reconcileTransactions, of isDuplicate, of parseBankStatement or of   *)
(* parseMT940.                                                             *)
(*                                                                         *)
(* Representation.  A JavaScript string is a sequence of one-character     *)
(* strings, so that toLowerCase, includes, trim, split and the regular     *)
(* expression replacements are computed, not assumed.  An amount is an     *)
(* integer number of hundredths (0.05 is 5, 50 is 5000); the registry      *)
(* keeps amounts as text cells and parseAmount turns them into numbers.    *)
(* A parsed date is <<n>>, n the number of days since 1970-01-01 (the      *)
(* JavaScript Date at UTC midnight divided by 86400000), or <<>> for null. *)
(* A reference to an invoice is its index in the invoice list, 0 for null. *)
(* Amounts are compared as exact decimals.  The inputs are chosen so that  *)
(* the binary floating-point arithmetic of JavaScript gives the same       *)
(* answers on them: a pair exactly 0.05 apart is 0 and 0.05, or 300 and    *)
(* 300.05, for which the computed difference is not below 0.05 either.     *)
(***************************************************************************)
EXTENDS Integers, Sequences, FiniteSets, TLC

(* ---------------------------------------------------------------------- *)
(* Strings                                                                 *)
(* ---------------------------------------------------------------------- *)

Digits == {"0", "1", "2", "3", "4", "5", "6", "7", "8", "9"}

LowerLetters ==
    {"a", "b", "c", "d", "e", "f", "g", "h", "i", "j", "k", "l", "m",
     "n", "o", "p", "q", "r", "s", "t", "u", "v", "w", "x", "y", "z"}

UpperToLower ==
    [c \in {"A", "B", "C", "D", "E", "F", "G", "H", "I", "J", "K", "L", "M",
            "N", "O", "P", "Q", "R", "S", "T", "U", "V", "W", "X", "Y", "Z"} |->
        CASE c = "A" -> "a" [] c = "B" -> "b" [] c = "C" -> "c" [] c = "D" -> "d"
          [] c = "E" -> "e" [] c = "F" -> "f" [] c = "G" -> "g" [] c = "H" -> "h"
          [] c = "I" -> "i" [] c = "J" -> "j" [] c = "K" -> "k" [] c = "L" -> "l"
          [] c = "M" -> "m" [] c = "N" -> "n" [] c = "O" -> "o" [] c = "P" -> "p"
          [] c = "Q" -> "q" [] c = "R" -> "r" [] c = "S" -> "s" [] c = "T" -> "t"
          [] c = "U" -> "u" [] c = "V" -> "v" [] c = "W" -> "w" [] c = "X" -> "x"
          [] c = "Y" -> "y" [] c = "Z" -> "z"]

\* String.prototype.toLowerCase
toLowerCase(s) ==
    [i \in 1..Len(s) |-> IF s[i] \in DOMAIN UpperToLower THEN UpperToLower[s[i]] ELSE s[i]]

\* String.prototype.includes: the empty string is included in every string
includes(s, sub) ==
    \E i \in 0..(Len(s) - Len(sub)) : SubSeq(s, i + 1, i + Len(sub)) = sub

IsAlnum(c) == c \in LowerLetters \cup Digits

\* s.replace(/[^a-z0-9]/g, '')
stripNonAlnum(s) == SelectSeq(s, IsAlnum)

RECURSIVE trimStart(_)
trimStart(s) == IF s # <<>> /\ Head(s) = " " THEN trimStart(Tail(s)) ELSE s

RECURSIVE trimEnd(_)
trimEnd(s) ==
    IF s # <<>> /\ s[Len(s)] = " " THEN trimEnd(SubSeq(s, 1, Len(s) - 1)) ELSE s

\* String.prototype.trim
trim(s) == trimEnd(trimStart(s))

RECURSIVE firstWord(_)
\* s.split(' ')[0]
firstWord(s) ==
    IF s = <<>> \/ Head(s) = " " THEN <<>> ELSE <<Head(s)>> \o firstWord(Tail(s))

\* normalizeString of sheets.js: '' for a missing value, else lower case with
\* everything but a-z and 0-9 removed
normalizeString(str) ==
    IF str = <<>> THEN <<>> ELSE stripNonAlnum(toLowerCase(str))

(* ---------------------------------------------------------------------- *)
(* Amounts                                                                 *)
(* ---------------------------------------------------------------------- *)

Abs(x) == IF x < 0 THEN -x ELSE x

DigitValue(c) ==
    CASE c = "0" -> 0 [] c = "1" -> 1 [] c = "2" -> 2 [] c = "3" -> 3 [] c = "4" -> 4
      [] c = "5" -> 5 [] c = "6" -> 6 [] c = "7" -> 7 [] c = "8" -> 8 [] c = "9" -> 9

RECURSIVE digitPrefix(_)
\* the longest prefix of s made of decimal digits
digitPrefix(s) ==
    IF s # <<>> /\ Head(s) \in Digits THEN <<Head(s)>> \o digitPrefix(Tail(s)) ELSE <<>>

RECURSIVE digitsToInt(_)
digitsToInt(ds) ==
    IF ds = <<>> THEN 0
    ELSE 10 * digitsToInt(SubSeq(ds, 1, Len(ds) - 1)) + DigitValue(ds[Len(ds)])

\* val.toString().replace(',', '.'): a string pattern replaces the first match only
RECURSIVE replaceFirstComma(_)
replaceFirstComma(s) ==
    IF s = <<>> THEN <<>>
    ELSE IF Head(s) = "," THEN <<".">> \o Tail(s)
    ELSE <<Head(s)>> \o replaceFirstComma(Tail(s))

\* .replace(/[^\d.-]/g, '')
keepNumberChars(s) == SelectSeq(s, LAMBDA c : c \in Digits \cup {".", "-"})

\* parseFloat(clean) || 0, in hundredths: an optional sign, the integer digits,
\* an optional fraction; NaN (no digit at all) becomes 0.  The fraction is read
\* to two places, which is exact for the cells of the registry modelled here.
parseFloatOrZero(clean) ==
    LET neg      == clean # <<>> /\ Head(clean) = "-"
        body     == IF neg THEN Tail(clean) ELSE clean
        intPart  == digitPrefix(body)
        rest     == SubSeq(body, Len(intPart) + 1, Len(body))
        fracPart == IF rest # <<>> /\ Head(rest) = "." THEN digitPrefix(Tail(rest)) ELSE <<>>
        frac2    == SubSeq(fracPart \o <<"0", "0">>, 1, 2)
        mag      == 100 * digitsToInt(intPart) + digitsToInt(frac2)
    IN  IF intPart = <<>> /\ fracPart = <<>> THEN 0
        ELSE IF neg THEN -mag ELSE mag

\* parseAmount of sheets.js for a text cell ('' is falsy and gives 0)
parseAmount(val) ==
    IF val = <<>> THEN 0
    ELSE parseFloatOrZero(keepNumberChars(replaceFirstComma(val)))

(* ---------------------------------------------------------------------- *)
(* Dates                                                                   *)
(* ---------------------------------------------------------------------- *)

\* days since 1970-01-01 of a proleptic Gregorian date (what new Date('y-m-d')
\* holds, in days)
DaysFromCivil(y, m, d) ==
    LET yy  == IF m <= 2 THEN y - 1 ELSE y
        era == yy \div 400
        yoe == yy - era * 400
        mp  == IF m > 2 THEN m - 3 ELSE m + 9
        doy == (153 * mp + 2) \div 5 + d - 1
        doe == yoe * 365 + yoe \div 4 - yoe \div 100 + doy
    IN  era * 146097 + doe - 719468

\* parseDate: the transaction date is text 'DD-MM-YYYY', held as <<dd, mm, yyyy>>
parseDate(dateStr) ==
    IF dateStr = <<>> THEN <<>>
    ELSE <<DaysFromCivil(dateStr[3], dateStr[2], dateStr[1])>>

\* parseInvoiceDate: the registry cell is text 'YYYY-MM-DD', held as
\* <<yyyy, mm, dd>>; an empty cell gives null
parseInvoiceDate(dateStr) ==
    IF dateStr = <<>> THEN <<>>
    ELSE <<DaysFromCivil(dateStr[1], dateStr[2], dateStr[3])>>

(* ---------------------------------------------------------------------- *)
(* Thresholds of the matcher, in hundredths where they are amounts          *)
(* ---------------------------------------------------------------------- *)

Tolerance == 5
DateWindowDays == 7
AcceptScore == 70
MinNumberLength == 3
NormalizedNumberLength == 5
NumberMatchTolerance == 10000
FuzzyTolerance == 5000
PartialExcess == 5000
MaxCandidates == 10
SubsetTolerance == 5

(* ---------------------------------------------------------------------- *)
(* Strategy 1: exact amount, scored by date and seller                      *)
(* ---------------------------------------------------------------------- *)

\* a variant of the consumption test that passes no invoice over
IsConsumedNever(inv) == FALSE

\* `if (inv.matched) continue`: an invoice already claimed is passed over
IsConsumed(inv) == inv.matched

\* Math.abs(Math.abs(txAmount) - Math.abs(invAmount))
AmountDiff(txAmount, invAmount) == Abs(Abs(txAmount) - Abs(invAmount))

\* a variant of the amount test that lets a difference of exactly 0.05 through
AmountsAgreeInclusive(txAmount, invAmount) == AmountDiff(txAmount, invAmount) <= Tolerance

\* the amount test of Strategy 1
AmountsAgree(txAmount, invAmount) == AmountDiff(txAmount, invAmount) < Tolerance

\* Math.ceil(Math.abs(txDate - invDate) / 86400000)
DiffDays(txDate, invDate) == Abs(txDate[1] - invDate[1])

\* a variant of the date test that is one day too wide
WithinDateWindowLoose(txDate, invDate) == DiffDays(txDate, invDate) <= DateWindowDays + 1

\* diffDays <= 7
WithinDateWindow(txDate, invDate) == DiffDays(txDate, invDate) <= DateWindowDays

\* (tx.counterparty + ' ' + tx.description).toLowerCase()
TxText(tx) == toLowerCase(tx.counterparty \o <<" ">> \o tx.description)

\* the score Strategy 1 gives an invoice whose amount agrees
ExactScore(tx, inv) ==
    LET txDate    == parseDate(tx.date)
        invDate   == parseInvoiceDate(inv.issueDate)
        dated     == txDate # <<>> /\ invDate # <<>>
        dateScore == IF dated /\ WithinDateWindow(txDate, invDate)
                     THEN 40 + (IF DiffDays(txDate, invDate) = 0 THEN 10 ELSE 0)
                     ELSE 0
        invSeller == toLowerCase(inv.seller)
        sellerScore == IF invSeller # <<>> /\ includes(TxText(tx), invSeller) THEN 10 ELSE 0
    IN  50 + dateScore + sellerScore

RECURSIVE strategy1Scan(_, _, _, _, _)
\* the loop of Strategy 1 from invoice k on: a later invoice replaces the best
\* one only with a strictly higher score
strategy1Scan(tx, invs, k, bestMatch, bestScore) ==
    IF k > Len(invs) THEN [bestMatch |-> bestMatch, bestScore |-> bestScore]
    ELSE IF IsConsumed(invs[k]) THEN strategy1Scan(tx, invs, k + 1, bestMatch, bestScore)
    ELSE IF AmountsAgree(tx.amount, parseAmount(invs[k].amount))
            /\ ExactScore(tx, invs[k]) > bestScore
         THEN strategy1Scan(tx, invs, k + 1, k, ExactScore(tx, invs[k]))
         ELSE strategy1Scan(tx, invs, k + 1, bestMatch, bestScore)

\* bestMatch is an index into the invoice list, 0 for null
Strategy1(tx, invs) == strategy1Scan(tx, invs, 1, 0, 0)

(* ---------------------------------------------------------------------- *)
(* Strategy 2: invoice number inside the transaction text                   *)
(* ---------------------------------------------------------------------- *)

\* (inv[3] || '').trim().toLowerCase()
InvNumber(inv) == toLowerCase(trim(inv.number))

\* diff < 100 || diff < Math.abs(invAmount) * 0.1
NumberAmountOk(txAmount, invAmount) ==
    \/ AmountDiff(txAmount, invAmount) < NumberMatchTolerance
    \/ 10 * AmountDiff(txAmount, invAmount) < Abs(invAmount)

\* the number of inv is found in the text of tx: literally, or, for a number
\* longer than 5, after both are reduced to a-z0-9
NumberInText(tx, inv) ==
    LET invNumber == InvNumber(inv)
        txDesc    == TxText(tx)
    IN  /\ Len(invNumber) >= MinNumberLength
        /\ \/ includes(txDesc, invNumber)
           \/ /\ Len(invNumber) > NormalizedNumberLength
              /\ includes(stripNonAlnum(txDesc), stripNonAlnum(invNumber))

\* one iteration of the Strategy 2 loop accepts the invoice
Strategy2Accepts(tx, inv) ==
    /\ ~IsConsumed(inv)
    /\ NumberInText(tx, inv)
    /\ NumberAmountOk(tx.amount, parseAmount(inv.amount))

\* a variant of Strategy 2 without the break: the last accepted invoice stays
Strategy2NoBreak(tx, invs) ==
    LET hits == {k \in 1..Len(invs) : Strategy2Accepts(tx, invs[k])}
    IN  IF hits = {} THEN [bestMatch |-> 0, bestScore |-> 0]
        ELSE [bestMatch |-> CHOOSE k \in hits : \A j \in hits : k >= j, bestScore |-> 85]

\* the first invoice the loop accepts (it breaks there), 0 when there is none
Strategy2(tx, invs) ==
    LET hits == {k \in 1..Len(invs) : Strategy2Accepts(tx, invs[k])}
    IN  IF hits = {} THEN [bestMatch |-> 0, bestScore |-> 0]
        ELSE [bestMatch |-> CHOOSE k \in hits : \A j \in hits : k <= j, bestScore |-> 85]

(* ---------------------------------------------------------------------- *)
(* Strategy 3: counterparty and a close amount; partial matches             *)
(* ---------------------------------------------------------------------- *)

\* sellerMatch || descMatch || firstWordMatch
SellerRelated(tx, inv) ==
    LET txCounterparty == toLowerCase(tx.counterparty)
        txDesc         == toLowerCase(tx.description)
        invSeller      == toLowerCase(inv.seller)
        sellerMatch    == includes(txCounterparty, invSeller) \/ includes(invSeller, txCounterparty)
        txFirstWord    == firstWord(txCounterparty)
        invFirstWord   == firstWord(invSeller)
        firstWordMatch == Len(txFirstWord) > 3 /\ Len(invFirstWord) > 3 /\ txFirstWord = invFirstWord
        descMatch      == includes(txDesc, invSeller)
    IN  sellerMatch \/ descMatch \/ firstWordMatch

\* diff < 50 || diff < Math.abs(invAmount) * 0.05
FuzzyAmountOk(txAmount, invAmount) ==
    \/ AmountDiff(txAmount, invAmount) < FuzzyTolerance
    \/ 20 * AmountDiff(txAmount, invAmount) < Abs(invAmount)

\* a variant of the excess test that takes an excess of exactly 50
ExceedsInvoiceInclusive(txAmount, invAmount) == Abs(txAmount) >= Abs(invAmount) + PartialExcess

\* Math.abs(txAmount) > Math.abs(invAmount) + 50
ExceedsInvoice(txAmount, invAmount) == Abs(txAmount) > Abs(invAmount) + PartialExcess

\* x.toFixed(2) of a non-negative amount: the units and the two decimals
toFixed2(x) == [units |-> x \div 100, decimals |-> x % 100]

\* `Partial Match. Remaining: ${(Math.abs(txAmount) - Math.abs(invAmount)).toFixed(2)}`
PartialNote(txAmount, invAmount) ==
    <<[label |-> "Partial Match. Remaining", remaining |-> toFixed2(Abs(txAmount) - Abs(invAmount))]>>

\* bestMatch.partial = true; bestMatch.notes = ...
StampPartial(inv, txAmount) ==
    [inv EXCEPT !.partial = TRUE, !.notes = PartialNote(txAmount, parseAmount(inv.amount))]

RECURSIVE strategy3Scan(_, _, _, _, _)
\* the loop of Strategy 3 from invoice k on.  A close amount ends the loop with
\* score 75; an invoice the payment exceeds by more than 50 becomes the partial
\* candidate (and is stamped at once) while bestScore is below 70, and the loop
\* goes on.
strategy3Scan(tx, invs, k, bestMatch, bestScore) ==
    IF k > Len(invs) THEN [bestMatch |-> bestMatch, bestScore |-> bestScore, invoices |-> invs]
    ELSE IF IsConsumed(invs[k]) \/ toLowerCase(invs[k].seller) = <<>> \/ ~SellerRelated(tx, invs[k])
         THEN strategy3Scan(tx, invs, k + 1, bestMatch, bestScore)
    ELSE IF FuzzyAmountOk(tx.amount, parseAmount(invs[k].amount))
         THEN [bestMatch |-> k, bestScore |-> 75, invoices |-> invs]
    ELSE IF ExceedsInvoice(tx.amount, parseAmount(invs[k].amount)) /\ bestScore < AcceptScore
         THEN strategy3Scan(tx, [invs EXCEPT ![k] = StampPartial(invs[k], tx.amount)],
                            k + 1, k, 70)
    ELSE strategy3Scan(tx, invs, k + 1, bestMatch, bestScore)

Strategy3(tx, invs) == strategy3Scan(tx, invs, 1, 0, 0)

(* ---------------------------------------------------------------------- *)
(* Strategy 4: several invoices that add up to the payment                  *)
(* ---------------------------------------------------------------------- *)

\* the filter of Strategy 4: unmatched, with a seller, seller and counterparty
\* contained one in the other
IsCandidate(tx, inv) ==
    LET txCounterparty == toLowerCase(tx.counterparty)
        invSeller      == toLowerCase(inv.seller)
    IN  /\ ~IsConsumed(inv)
        /\ invSeller # <<>>
        /\ includes(txCounterparty, invSeller) \/ includes(invSeller, txCounterparty)

RECURSIVE candidatesFrom(_, _, _)
candidatesFrom(tx, invs, k) ==
    IF k > Len(invs) THEN <<>>
    ELSE (IF IsCandidate(tx, invs[k]) THEN <<k>> ELSE <<>>) \o candidatesFrom(tx, invs, k + 1)

\* invoices.filter(...): the indices of the candidates, in registry order
Candidates(tx, invs) == candidatesFrom(tx, invs, 1)

\* a variant of the size test without the lower limit
CandidateCountBelowLimit(n) == n < MaxCandidates

\* the size test on the candidate list
CandidateCountOk(n) == n > 1 /\ n < MaxCandidates

\* Math.abs(currentSum - target) <= tolerance
SumReached(currentSum, target) == Abs(currentSum - target) <= SubsetTolerance

RECURSIVE recurse(_, _, _, _, _, _)
\* recurse of findSubsetSum; [found |-> FALSE] is null.  An array is truthy in
\* JavaScript even when empty, so a found subset is returned whatever its size.
recurse(invs, cands, target, index, currentSum, currentSubset) ==
    IF SumReached(currentSum, target) THEN [found |-> TRUE, subset |-> currentSubset]
    ELSE IF index > Len(cands) \/ currentSum > target + SubsetTolerance
         THEN [found |-> FALSE, subset |-> <<>>]
    ELSE LET invAmount == Abs(parseAmount(invs[cands[index]].amount))
             withInv   == recurse(invs, cands, target, index + 1, currentSum + invAmount,
                                  Append(currentSubset, cands[index]))
         IN  IF withInv.found THEN withInv
             ELSE recurse(invs, cands, target, index + 1, currentSum, currentSubset)

findSubsetSum(invs, cands, target) == recurse(invs, cands, target, 1, 0, <<>>)

\* Strategy 4 for tx: "none" (too few or too many candidates, or no subset),
\* "combo" with the subset, or "throw": the subset found is empty, combo[0] is
\* undefined and `bestMatch.additionalInvoices = ...` raises a TypeError
Strategy4(tx, invs) ==
    LET cands == Candidates(tx, invs)
        combo == findSubsetSum(invs, cands, Abs(tx.amount))
    IN  IF ~CandidateCountOk(Len(cands)) \/ ~combo.found
        THEN [kind |-> "none", subset |-> <<>>]
        ELSE IF combo.subset = <<>> THEN [kind |-> "throw", subset |-> <<>>]
        ELSE [kind |-> "combo", subset |-> combo.subset]

(* ---------------------------------------------------------------------- *)
(* One transaction through the four strategies                              *)
(* ---------------------------------------------------------------------- *)

\* `if (!bestMatch)`: the guard in front of Strategies 2, 3 and 4
NoMatchYet(bestMatch) == bestMatch = 0

\* `bestMatch && bestScore >= 70`
Accepted(bestMatch, bestScore) == bestMatch # 0 /\ bestScore >= AcceptScore

\* combo[0].additionalInvoices = combo.slice(1)
LinkCombination(invs, subset) ==
    [invs EXCEPT ![Head(subset)].additionalInvoices = Tail(subset)]

\* the one element of a singleton set: used to evaluate a step once and hand
\* its value to the next
The(S) == CHOOSE x \in S : TRUE

\* Strategy 1 always runs; the invoice list is as loaded
AfterStrategy1(tx, invs) ==
    [bestMatch |-> Strategy1(tx, invs).bestMatch, bestScore |-> Strategy1(tx, invs).bestScore,
     invoices |-> invs, tried |-> <<1>>, throws |-> FALSE]

\* `if (!bestMatch) { Strategy 2 }`
AfterStrategy2(tx, s) ==
    IF NoMatchYet(s.bestMatch)
    THEN [s EXCEPT !.bestMatch = Strategy2(tx, s.invoices).bestMatch,
                   !.bestScore = Strategy2(tx, s.invoices).bestScore,
                   !.tried = Append(@, 2)]
    ELSE s

\* `if (!bestMatch) { Strategy 3 }`
AfterStrategy3(tx, s) ==
    IF NoMatchYet(s.bestMatch)
    THEN The({[s EXCEPT !.bestMatch = r.bestMatch, !.bestScore = r.bestScore,
                        !.invoices = r.invoices, !.tried = Append(@, 3)]
              : r \in {Strategy3(tx, s.invoices)}})
    ELSE s

\* `if (!bestMatch) { Strategy 4 }`
AfterStrategy4(tx, s) ==
    IF NoMatchYet(s.bestMatch)
    THEN The({IF r.kind = "throw"
              THEN [s EXCEPT !.bestScore = 95, !.tried = Append(@, 4), !.throws = TRUE]
              ELSE IF r.kind = "combo"
              THEN [s EXCEPT !.bestMatch = Head(r.subset), !.bestScore = 95,
                             !.invoices = LinkCombination(@, r.subset),
                             !.tried = Append(@, 4)]
              ELSE [s EXCEPT !.tried = Append(@, 4)]
              : r \in {Strategy4(tx, s.invoices)}})
    ELSE s

\* Lines 51-215 for one outgoing transaction: the strategies in their order,
\* each behind its guard.  tried lists the strategies whose code ran; throws
\* tells that Strategy 4 raised.
MatchStrategies(tx, invs) ==
    The({AfterStrategy4(tx, s3) :
            s3 \in {AfterStrategy3(tx, s2) :
                s2 \in {AfterStrategy2(tx, s1) :
                    s1 \in {AfterStrategy1(tx, invs)}}}})

\* a variant of the marking that leaves the flags as they were
MarkMatchedForgets(invs, bestMatch) == invs

\* bestMatch.matched = true and the same for every additional invoice
MarkMatched(invs, bestMatch) ==
    [k \in 1..Len(invs) |->
        IF k = bestMatch \/ \E j \in 1..Len(invs[bestMatch].additionalInvoices) :
                                invs[bestMatch].additionalInvoices[j] = k
        THEN [invs[k] EXCEPT !.matched = TRUE]
        ELSE invs[k]]

(* ---------------------------------------------------------------------- *)
(* Exemptions                                                               *)
(* ---------------------------------------------------------------------- *)

\* the bank's label of fee transactions, 'Opłaty i prowizje'
FeeType == <<"O", "p", "l-stroke", "a", "t", "y", " ", "i", " ", "p", "r", "o", "w", "i", "z", "j", "e">>

\* config.exemptions: rules of keywords and a category
ConfigExemptions ==
    << [keywords |-> <<<<"P", "r", "o", "w", "i", "z", "j", "a">>>>, category |-> "BANK_FEES"] >>

\* (tx.counterparty + ' ' + tx.description + ' ' + (tx.type || '')).toLowerCase()
CombinedText(tx) ==
    toLowerCase(tx.counterparty \o <<" ">> \o tx.description \o <<" ">> \o tx.type)

\* rule.keywords.some(k => combinedText.includes(k.toLowerCase()))
RuleApplies(rule, tx) ==
    \E i \in 1..Len(rule.keywords) : includes(CombinedText(tx), toLowerCase(rule.keywords[i]))

\* the exemption category of tx, <<>> when it is not exempt: the first rule
\* that applies, else FEES for the fee type
ExemptionCategory(tx) ==
    LET hits == {r \in 1..Len(ConfigExemptions) : RuleApplies(ConfigExemptions[r], tx)}
    IN  IF hits # {}
        THEN <<ConfigExemptions[CHOOSE r \in hits : \A q \in hits : r <= q].category>>
        ELSE IF tx.type = FeeType THEN <<"FEES">>
        ELSE <<>>

(* ---------------------------------------------------------------------- *)
(* Recovery search (findMissingInvoice of gmail_search.js)                  *)
(* ---------------------------------------------------------------------- *)

InternalKeywords ==
    << <<"R", "Y", "C", "H", "L", "I", "C", "K", "I", " ", "H", "O", "L", "D", "I", "N", "G">>,
       <<"B", "a", "r", "t", "o", "s", "z", " ", "R", "y", "c", "h", "l", "i", "c", "k", "i">>,
       <<"W", "e", "w", "n", "e-ogonek", "t", "r", "z", "n", "y">>,
       <<"Z", "U", "S">>,
       <<"U", "r", "z", "a-ogonek", "d", " ", "S", "k", "a", "r", "b", "o", "w", "y">> >>

\* internalKeywords.some(k => counterparty.includes(k) || description.includes(k))
IsInternal(tx) ==
    \E i \in 1..Len(InternalKeywords) :
        \/ includes(toLowerCase(tx.counterparty), toLowerCase(InternalKeywords[i]))
        \/ includes(toLowerCase(tx.description), toLowerCase(InternalKeywords[i]))

\* what findMissingInvoice returns: no mailbox query is made for an incoming or
\* an internal transaction; otherwise the mailbox decides (outcome).  A query
\* that raises is caught and the next one is tried, and generateSearchQueries
\* catches its own errors, so "failed" (every call raised) ends like a search
\* that finds nothing
findMissingInvoice(tx, outcome) ==
    IF tx.amount > 0
    THEN [found |-> FALSE, reason |-> "income", queried |-> FALSE, failed |-> FALSE]
    ELSE IF IsInternal(tx)
    THEN [found |-> FALSE, reason |-> "internal", queried |-> FALSE, failed |-> FALSE]
    ELSE IF outcome = "found"
    THEN [found |-> TRUE, reason |-> "", queried |-> TRUE, failed |-> FALSE]
    ELSE [found |-> FALSE, reason |-> "not_found", queried |-> TRUE,
          failed |-> (outcome = "failed")]

SearchOutcomes == {"found", "not_found", "failed"}

\* a variant that leaves the status unset when the search failed
GmailStatusUnlessFailed(result) ==
    IF result.failed THEN <<>>
    ELSE IF result.found THEN <<[status |-> "FOUND", reason |-> ""]>>
    ELSE <<[status |-> "NOT FOUND", reason |-> result.reason]>>

\* tx.gmailStatus
GmailStatus(result) ==
    IF result.found THEN <<[status |-> "FOUND", reason |-> ""]>>
    ELSE <<[status |-> "NOT FOUND", reason |-> result.reason]>>

(* ---------------------------------------------------------------------- *)
(* isDuplicate of sheets.js                                                 *)
(* ---------------------------------------------------------------------- *)

DedupTolerance == 5
AmountPoints == 40
DatePoints == 30
NumberPoints == 20
SellerPoints == 20
DuplicateScore == 80

\* parseAmount(data.total_amount): a number is returned as it is, a text is parsed
targetAmount(data) ==
    IF data.total_amount.isNumber THEN data.total_amount.number
    ELSE parseAmount(data.total_amount.text)

\* a variant of the amount test that lets a difference of exactly 0.05 pass
SameAmountInclusive(row, data) ==
    Abs(parseAmount(row.amount) - targetAmount(data)) <= DedupTolerance

\* Math.abs(existingAmount - targetAmount) < 0.05, on the signed amounts
SameAmount(row, data) ==
    Abs(parseAmount(row.amount) - targetAmount(data)) < DedupTolerance

\* a variant of the date test that never finds two dates identical
SameDateNever(row, data) == FALSE

\* existingIssueDate === targetDate: the two texts, character by character
SameDate(row, data) == row.issueDate = data.issue_date

\* a variant of the number test that compares the texts as they were written
SameNumberLiteral(row, data) ==
    data.number # <<>> /\ row.number = data.number

\* targetNumberNorm && normalizeString(existingNumber) === targetNumberNorm
SameNumber(row, data) ==
    /\ normalizeString(data.number) # <<>>
    /\ normalizeString(row.number) = normalizeString(data.number)

\* targetSellerNorm && normalizeString(existingSellerTaxId) === targetSellerNorm
SameSeller(row, data) ==
    /\ normalizeString(data.seller_tax_id) # <<>>
    /\ normalizeString(row.sellerTaxId) = normalizeString(data.seller_tax_id)

\* a variant of the score without the guards on a missing number or tax id
dedupScoreUnguarded(row, data) ==
    (IF SameAmount(row, data) THEN AmountPoints ELSE 0)
    + (IF SameDate(row, data) THEN DatePoints ELSE 0)
    + (IF normalizeString(row.number) = normalizeString(data.number)
       THEN NumberPoints ELSE 0)
    + (IF normalizeString(row.sellerTaxId) = normalizeString(data.seller_tax_id)
       THEN SellerPoints ELSE 0)

\* the score of one registry row against the candidate; the buyer tax id is
\* read and adds nothing
dedupScore(row, data) ==
    (IF SameAmount(row, data) THEN AmountPoints ELSE 0)
    + (IF SameDate(row, data) THEN DatePoints ELSE 0)
    + (IF SameNumber(row, data) THEN NumberPoints ELSE 0)
    + (IF SameSeller(row, data) THEN SellerPoints ELSE 0)

\* a variant of the threshold test that needs more than 80
ReachesThresholdStrict(score) == score > DuplicateScore

\* a variant of the threshold test that uses the 60 of the debug log
ReachesLogThreshold(score) == score >= 60

\* if (score >= 80) return true
ReachesThreshold(score) == score >= DuplicateScore

\* async-retry is given retries: 3: a rejected call is repeated three times
Retries == 3

\* withRetry gives up when the call made after the last retry is rejected too
GivesUp(rejected) == rejected >= Retries

(* ---------------------------------------------------------------------- *)
(* parseBankStatement of bank_parser.js                                     *)
(* ---------------------------------------------------------------------- *)

RECURSIVE split(_)
\* line.split(',')
split(s) ==
    IF \A i \in 1..Len(s) : s[i] # "," THEN <<s>>
    ELSE LET i == CHOOSE c \in 1..Len(s) : s[c] = "," /\ \A b \in 1..(c - 1) : s[b] # ","
         IN  <<SubSeq(s, 1, i - 1)>> \o split(SubSeq(s, i + 1, Len(s)))

RECURSIVE join(_)
\* parts.join(',')
join(parts) ==
    IF parts = <<>> THEN <<>>
    ELSE IF Len(parts) = 1 THEN parts[1]
    ELSE parts[1] \o <<",">> \o join(Tail(parts))

\* parts.slice(begin, end): the elements at the JavaScript indices begin..end-1
slice(parts, begin, end) == SubSeq(parts, begin + 1, end)

\* parseFloat, in hundredths, <<>> for NaN: leading blanks, an optional sign,
\* the integer digits, an optional fraction; what follows is ignored.  The
\* fraction is read to two places, which is exact for the lines modelled here.
parseFloat(str) ==
    LET s        == trimStart(str)
        neg      == s # <<>> /\ Head(s) = "-"
        body     == IF s # <<>> /\ Head(s) \in {"-", "+"} THEN Tail(s) ELSE s
        intPart  == digitPrefix(body)
        rest     == SubSeq(body, Len(intPart) + 1, Len(body))
        fracPart == IF rest # <<>> /\ Head(rest) = "." THEN digitPrefix(Tail(rest)) ELSE <<>>
        frac2    == SubSeq(fracPart \o <<"0", "0">>, 1, 2)
        mag      == 100 * digitsToInt(intPart) + digitsToInt(frac2)
    IN  IF intPart = <<>> /\ fracPart = <<>> THEN <<>>
        ELSE IF neg THEN <<-mag>> ELSE <<mag>>

\* !line.trim()
IsBlank(line) == trim(line) = <<>>

\* line.includes('Data księgowania') && line.includes('Kwota')
IsHeaderLine(line) ==
    /\ includes(line, <<"D", "a", "t", "a", " ", "k", "s", "i", "e-ogonek", "g", "o", "w", "a", "n", "i", "a">>)
    /\ includes(line, <<"K", "w", "o", "t", "a">>)

MinTokens == 9

\* a variant of the length test that also discards a line of nine tokens
MalformedLineInclusive(parts) == Len(parts) <= MinTokens

\* if (parts.length < 9) continue
MalformedLine(parts) == Len(parts) < MinTokens

\* the object pushed for a line; it gets no type property, so that tx.type
\* reads undefined
parseLine(line) ==
    LET parts == split(line)
    IN  [date |-> parts[2], amount |-> parseFloat(parts[4]), currency |-> parts[5],
         counterparty |-> parts[6],
         description |-> join(slice(parts, 7, Len(parts) - 1)),
         raw |-> line, type |-> <<>>]

(* ---------------------------------------------------------------------- *)
(* parseMT940 of bank_parser.js                                             *)
(* ---------------------------------------------------------------------- *)

UpperLetters == DOMAIN UpperToLower

\* String.prototype.startsWith
startsWith(s, prefix) == Len(s) >= Len(prefix) /\ SubSeq(s, 1, Len(prefix)) = prefix

RECURSIVE prefixIn(_, _)
\* the longest prefix of s made of characters of class: what a greedy
\* quantifier over a character class takes
prefixIn(s, class) ==
    IF s # <<>> /\ Head(s) \in class THEN <<Head(s)>> \o prefixIn(Tail(s), class) ELSE <<>>

Tag61 == <<":", "6", "1", ":">>
Tag86 == <<":", "8", "6", ":">>

\* raw.match(/^(\d{6})(\d{4})?([A-Z]{1,2})([0-9,]+)([A-Z])([A-Z]{3})/): <<>> for
\* null, else the groups 1, 3, 4 and 6.  The classes of neighbouring groups do
\* not meet, so the greedy choice is the only one: the entry date is taken
\* when four more digits follow, group 3 is the whole run of one or two
\* letters in front of the amount, and three letters there match nothing.
match61(raw) ==
    LET entry   == IF Len(prefixIn(SubSeq(raw, 7, Len(raw)), Digits)) >= 4 THEN 4 ELSE 0
        rest    == SubSeq(raw, 7 + entry, Len(raw))
        dc      == prefixIn(rest, UpperLetters)
        afterDc == SubSeq(rest, Len(dc) + 1, Len(rest))
        amount  == prefixIn(afterDc, Digits \cup {","})
        tail    == SubSeq(afterDc, Len(amount) + 1, Len(afterDc))
    IN  IF /\ Len(prefixIn(raw, Digits)) >= 6
           /\ Len(dc) \in {1, 2}
           /\ amount # <<>>
           /\ Len(prefixIn(tail, UpperLetters)) >= 4
        THEN <<[dateStr |-> SubSeq(raw, 1, 6), dc |-> dc, amountStr |-> amount,
                type |-> SubSeq(tail, 2, 4)]>>
        ELSE <<>>

\* dc.includes('D')
IsDebit(dc) == includes(dc, <<"D">>)

\* amount = parseFloat(amountStr); if (dc.includes('D')) amount = -amount
\* (the negation of NaN is NaN)
signedAmount(amountStr, dc) ==
    LET amount == parseFloat(replaceFirstComma(amountStr))
    IN  IF amount # <<>> /\ IsDebit(dc) THEN <<-amount[1]>> ELSE amount

\* `${day}-${month}-${year}` with year = '20' + YY
dateForReconcile(dateStr) ==
    SubSeq(dateStr, 5, 6) \o <<"-">> \o SubSeq(dateStr, 3, 4) \o <<"-", "2", "0">>
        \o SubSeq(dateStr, 1, 2)

\* the object created for a :61: line that matches; it has no description and
\* no counterparty yet
newTransaction(line, m) ==
    [date |-> dateForReconcile(m.dateStr), amount |-> signedAmount(m.amountStr, m.dc),
     currency |-> <<"P", "L", "N">>, type |-> m.type, raw |-> line]

RECURSIVE splitBy(_, _)
\* buffer.split(sep) for a separator of one character
splitBy(s, sep) ==
    IF \A i \in 1..Len(s) : s[i] # sep THEN <<s>>
    ELSE LET i == CHOOSE c \in 1..Len(s) : s[c] = sep /\ \A b \in 1..(c - 1) : s[b] # sep
         IN  <<SubSeq(s, 1, i - 1)>> \o splitBy(SubSeq(s, i + 1, Len(s)), sep)

\* part.length >= 2 and code = part.substring(0, 2) lies between the two-digit
\* strings lo and hi.  The comparison of the code is one of strings; a code
\* with a character that is no digit lies in none of the ranges 00, 20-26,
\* 27-29, 60-63, and for two digits the order of strings is that of numbers.
HasCode(part, lo, hi) ==
    /\ Len(part) >= 2
    /\ part[1] \in Digits /\ part[2] \in Digits
    /\ digitsToInt(SubSeq(part, 1, 2)) \in lo..hi

RECURSIVE valuesOf(_, _, _)
\* the values of the parts with a code from lo to hi, each followed by a blank
valuesOf(parts, lo, hi) ==
    IF parts = <<>> THEN <<>>
    ELSE (IF HasCode(Head(parts), lo, hi)
          THEN trim(SubSeq(Head(parts), 3, Len(Head(parts)))) \o <<" ">>
          ELSE <<>>) \o valuesOf(Tail(parts), lo, hi)

RECURSIVE lastValueOf(_, _)
\* typeDesc: the value of the last part with the code, '' when there is none
lastValueOf(parts, code) ==
    IF parts = <<>> THEN <<>>
    ELSE IF HasCode(parts[Len(parts)], code, code)
         THEN trim(SubSeq(parts[Len(parts)], 3, Len(parts[Len(parts)])))
    ELSE lastValueOf(SubSeq(parts, 1, Len(parts) - 1), code)

RECURSIVE collapseSpaces(_)
\* s.replace(/\s+/g, ' ')
collapseSpaces(s) ==
    IF s = <<>> THEN <<>>
    ELSE IF Head(s) = " " /\ Len(s) > 1 /\ s[2] = " " THEN collapseSpaces(Tail(s))
    ELSE <<Head(s)>> \o collapseSpaces(Tail(s))

\* valuesOf for the two ranges of the counterparty, in the order of the parts
RECURSIVE counterpartyOf(_)
counterpartyOf(parts) ==
    IF parts = <<>> THEN <<>>
    ELSE (IF HasCode(Head(parts), 27, 29) \/ HasCode(Head(parts), 60, 63)
          THEN trim(SubSeq(Head(parts), 3, Len(Head(parts)))) \o <<" ">>
          ELSE <<>>) \o counterpartyOf(Tail(parts))

\* parse86(tx, buffer): the object with description and counterparty set
parse86(tx, buffer) ==
    LET parts == splitBy(buffer, "<")
    IN  [date |-> tx.date, amount |-> tx.amount, currency |-> tx.currency,
         type |-> tx.type, raw |-> tx.raw,
         description |->
             collapseSpaces(trim(lastValueOf(parts, 0) \o <<" ">> \o valuesOf(parts, 20, 26))),
         counterparty |-> collapseSpaces(trim(counterpartyOf(parts)))]

(* ---------------------------------------------------------------------- *)
(* Inputs                                                                   *)
(* ---------------------------------------------------------------------- *)

MaxTx == 2
MaxInv == 2

Tx(date, amount, counterparty, description, type) ==
    [date |-> date, amount |-> amount, counterparty |-> counterparty,
     description |-> description, type |-> type]

\* Statement lines: a payment to ACME SA that names two invoice numbers, a
\* larger payment to ACME SA, a fee with no counterparty a week later, a
\* zero-amount commission line, an incoming amount, a payment to ZUS that
\* names Acme eight days later, and a small payment to ACME SA
TxPool ==
    { Tx(<<20, 11, 2025>>, -10000, <<"A", "C", "M", "E", " ", "S", "A">>, <<"F", "/", "1", "2", " ", "A", "B", "/", "1", "2", "3">>, <<>>),
      Tx(<<20, 11, 2025>>, -30000, <<"A", "C", "M", "E", " ", "S", "A">>, <<>>, <<>>),
      Tx(<<27, 11, 2025>>, -10000, <<>>, <<>>, FeeType),
      Tx(<<20, 11, 2025>>, 0, <<"A", "C", "M", "E", " ", "S", "A">>, <<"p", "r", "o", "w", "i", "z", "j", "a">>, <<>>),
      Tx(<<20, 11, 2025>>, 10000, <<"A", "C", "M", "E", " ", "S", "A">>, <<"F", "/", "1", "2", " ", "A", "B", "/", "1", "2", "3">>, <<>>),
      Tx(<<28, 11, 2025>>, -10000, <<"Z", "U", "S">>, <<"p", "a", "y", " ", "a", "c", "m", "e">>, <<>>),
      Tx(<<20, 11, 2025>>, -2000, <<"A", "C", "M", "E", " ", "S", "A">>, <<>>, <<>>) }

Row(number, issueDate, amount, seller) ==
    [c0 |-> "2025-11-21T08:00:00.000Z", number |-> number, issueDate |-> issueDate,
     amount |-> amount, seller |-> seller, sellerTaxId |-> <<>>, buyerTaxId |-> <<>>]

\* Registry rows (columns 0, 3, 4, 5, 7, 8 and 10 of the sheet)
RowPool ==
    { Row(<<"F", "/", "1", "2">>, <<2025, 11, 20>>, <<"1", "0", "0", ".", "0", "0">>, <<"A", "c", "m", "e">>),
      Row(<<"F", "-", "1", "2">>, <<2025, 11, 20>>, <<"1", "0", "0", ",", "0", "6">>, <<"A", "c", "m", "e">>),
      Row(<<"A", "B", "-", "1", "2", "3">>, <<>>, <<"1", "4", "0", ".", "0", "0">>, <<"A", "c", "m", "e", " ", "L", "t", "d">>),
      Row(<<>>, <<2025, 11, 20>>, <<"5", "0">>, <<"A", "c", "m", "e">>),
      Row(<<"1", "2">>, <<>>, <<"2", "0", "0", ".", "0", "0">>, <<"A", "c", "m", "e">>),
      Row(<<"F", "/", "1", "2">>, <<>>, <<"4", "0", ".", "0", "0">>, <<>>),
      Row(<<>>, <<>>, <<"0", ",", "0", "5">>, <<"A", "c", "m", "e">>) }

HeaderRow ==
    [c0 |-> "Timestamp", number |-> <<"N", "u", "m", "b", "e", "r">>, issueDate |-> <<>>,
     amount |-> <<"A", "m", "o", "u", "n", "t">>, seller |-> <<"S", "e", "l", "l", "e", "r", " ", "N", "a", "m", "e">>,
     sellerTaxId |-> <<"S", "e", "l", "l", "e", "r", " ", "N", "I", "P">>,
     buyerTaxId |-> <<"B", "u", "y", "e", "r", " ", "N", "I", "P">>]

SeqsUpTo(pool, n) == UNION {[1..m -> pool] : m \in 0..n}

\* the answers of the sheet read: an error after the retries, or the rows with
\* or without the header line
SheetResponses ==
    {[ok |-> FALSE, values |-> <<>>]}
    \cup {[ok |-> TRUE, values |-> rows] : rows \in SeqsUpTo(RowPool, MaxInv)}
    \cup {[ok |-> TRUE, values |-> <<HeaderRow>> \o rows] : rows \in SeqsUpTo(RowPool, MaxInv)}

\* a registry row as isDuplicate reads it (columns 3, 4, 5, 8 and 10)
RegistryRow(number, issueDate, amount, sellerTaxId, buyerTaxId) ==
    [c0 |-> "2025-11-21T08:00:00.000Z", number |-> number, issueDate |-> issueDate,
     amount |-> amount, seller |-> <<"A", "c", "m", "e">>,
     sellerTaxId |-> sellerTaxId, buyerTaxId |-> buyerTaxId]

\* Rows of the registry for the duplicate check: an invoice of 300.00, one with
\* a comma amount, a row without number and tax id 0.05 above the first, and
\* the first invoice written another way, a day later and 0.04 higher
RegistryPool ==
    { RegistryRow(<<"F", "/", "1">>, <<2025, 11, 20>>, <<"3", "0", "0", ".", "0", "0">>, <<"1", "2">>, <<"9">>),
      RegistryRow(<<"P", " ", "2">>, <<2025, 11, 21>>, <<"5", "0", ",", "5", "0">>, <<"3", "4">>, <<"9">>),
      RegistryRow(<<>>, <<2025, 11, 20>>, <<"3", "0", "0", ".", "0", "5">>, <<>>, <<"9">>),
      RegistryRow(<<"f", "-", "1">>, <<2025, 11, 21>>, <<"3", "0", "0", ".", "0", "4">>, <<"1", "-", "2">>, <<"8">>) }

RegistryResponses ==
    {[ok |-> FALSE, values |-> <<>>]}
    \cup {[ok |-> TRUE, values |-> rows] : rows \in SeqsUpTo(RegistryPool, MaxInv)}
    \cup {[ok |-> TRUE, values |-> <<HeaderRow>> \o rows] : rows \in SeqsUpTo(RegistryPool, MaxInv)}

MaxLines == 3

\* the header of the export and lines of a statement: a transfer whose title
\* holds commas, a transfer with an empty account, a fee, a line of eight
\* tokens, a blank line, and a line whose amount is no number
HeaderLine ==
    <<"D", "a", "t", "a", " ", "k", "s", "i", "e-ogonek", "g", "o", "w", "a", "n", "i", "a", ",",
      "D", "a", "t", "a", " ", "o", "p", "e", "r", "a", "c", "j", "i", ",", "R", "o", "d", "z",
      "a", "j", " ", "o", "p", "e", "r", "a", "c", "j", "i", ",", "K", "w", "o", "t", "a", ",",
      "W", "a", "l", "u", "t", "a", ",", "D", "a", "n", "e", " ", "k", "o", "n", "t", "r", "a",
      "h", "e", "n", "t", "a", ",", "N", "u", "m", "e", "r", " ", "r", "a", "c", "h", "u", "n",
      "k", "u", " ", "k", "o", "n", "t", "r", "a", "h", "e", "n", "t", "a", ",", "T", "y", "t",
      "u", "l-stroke", " ", "o", "p", "e", "r", "a", "c", "j", "i", ",", "S", "a", "l", "d", "o",
      " ", "p", "o", " ", "o", "p", "e", "r", "a", "c", "j", "i">>

LeasingLine ==
    <<"2", "0", "-", "1", "1", "-", "2", "0", "2", "5", ",", "2", "0", "-", "1", "1", "-", "2",
      "0", "2", "5", ",", "P", "r", "z", "e", "l", "e", "w", ",", "-", "1", "2", "0", "4", ".",
      "6", "3", ",", "P", "L", "N", ",", "P", "K", "O", " ", "L", "e", "a", "s", "i", "n", "g",
      " ", "S", ".", "A", ".", "|", "u", "l", ".", " ", "3", "6", ",", "0", "4", "1", "0", ",",
      "l", "e", "a", "s", "i", "n", "g", " ", "n", "r", " ", "2", "5", "/", "0", "2", ",", " ",
      "K", "w", "o", "t", "a", " ", "V", "A", "T", ":", " ", "2", "2", " ", "5", ",", "2", "6",
      ",", " ", "I", "d", ":", " ", "7", "2", "5", ",", "2", "1", "0", "7", "5", ".", "5", "8">>

RentLine ==
    <<"1", "9", "-", "1", "1", "-", "2", "0", "2", "5", ",", "1", "9", "-", "1", "1", "-", "2",
      "0", "2", "5", ",", "P", "r", "z", "e", "l", "e", "w", ",", "-", "8", "0", ".", "3", ",",
      "P", "L", "N", ",", "N", "e", "s", "t", " ", "B", "a", "n", "k", ",", ",", "c", "z", "y",
      "n", "s", "z", ",", "3", "2", "4", ".", "1", "4">>

FeeLine ==
    <<"1", "8", "-", "1", "1", "-", "2", "0", "2", "5", ",", "1", "8", "-", "1", "1", "-", "2",
      "0", "2", "5", ",", "O", "p", "l-stroke", "a", "t", "y", " ", "i", " ", "p", "r", "o", "w",
      "i", "z", "j", "e", ",", "-", "5", ",", "P", "L", "N", ",", ",", ",", "k", "a", "r", "t",
      "a", " ", "1", "1", "/", "2", "5", ",", "3", "1", "9", ".", "1", "4">>

ShortLine ==
    <<"1", "7", "-", "1", "1", "-", "2", "0", "2", "5", ",", "1", "7", "-", "1", "1", "-", "2",
      "0", "2", "5", ",", "P", "r", "z", "e", "l", "e", "w", ",", "-", "1", "0", ",", "P", "L",
      "N", ",", "A", "C", "M", "E", ",", "1", ",", "x">>

BlankLine ==
    <<" ", " ">>

NoAmountLine ==
    <<"1", "6", "-", "1", "1", "-", "2", "0", "2", "5", ",", "1", "6", "-", "1", "1", "-", "2",
      "0", "2", "5", ",", "P", "r", "z", "e", "l", "e", "w", ",", "a", "b", "c", ",", "P", "L",
      "N", ",", "A", "C", "M", "E", ",", "1", ",", "x", ",", "9">>

LinePool == {HeaderLine, LeasingLine, RentLine, FeeLine, ShortLine, BlankLine, NoAmountLine}

\* lines of a statement in the tagged dialect: a debit in PLN with an entry
\* date, a credit without a funds code, a credit whose funds code is D, a
\* :61: line that the pattern does not match, two narratives, a line that
\* continues a narrative, and another tag
Debit61 ==
    <<":", "6", "1", ":", "2", "5", "1", "1", "0", "7", "1", "1", "0", "7", "D", "N", "1",
      "0", "0", ",", "0", "0", "N", "T", "R", "F", "N", "O", "N", "R", "E", "F">>

Credit61 ==
    <<":", "6", "1", ":", "2", "5", "1", "1", "0", "8", "C", "5", "0", ",", "0", "0", "N",
      "M", "S", "C">>

CreditFundsD61 ==
    <<":", "6", "1", ":", "2", "5", "1", "1", "0", "9", "C", "D", "2", "0", ",", "0", "0",
      "N", "T", "R", "F">>

Malformed61 ==
    <<":", "6", "1", ":", "N", "O", "N", "R", "E", "F">>

Narrative86 ==
    <<":", "8", "6", ":", "<", "0", "0", "P", "r", "z", "e", "l", "e", "w", "<", "2", "0",
      "F", "/", "1", "2", "<", "2", "7", "A", "C", "M", "E", " ", "S", "A">>

OtherNarrative86 ==
    <<":", "8", "6", ":", "<", "2", "0", "A", "B", "-", "1", "2", "3", "<", "2", "7", "B",
      "e", "t", "a">>

ContinuationLine ==
    <<"<", "6", "0", "G", "d", "a", "n", "s", "k">>

OtherTagLine ==
    <<":", "6", "2", "F", ":", "C", "2", "5", "1", "1", "0", "7", "P", "L", "N", "0", ",",
      "0", "0">>

MT940LinePool ==
    {Debit61, Credit61, CreditFundsD61, Malformed61, Narrative86, OtherNarrative86,
     ContinuationLine, OtherTagLine}

AsNumber(n) == [isNumber |-> TRUE, number |-> n, text |-> <<>>]
AsText(t) == [isNumber |-> FALSE, number |-> 0, text |-> t]

Invoice(number, issue_date, total_amount, seller_tax_id, buyer_tax_id) ==
    [number |-> number, issue_date |-> issue_date, total_amount |-> total_amount,
     seller_tax_id |-> seller_tax_id, buyer_tax_id |-> buyer_tax_id]

\* Extracted invoices offered to isDuplicate: the first registry row again; the
\* same written another way; the same without a number; another number and
\* amount; another number and date; 0.05 more; 0.05 more with no number and no
\* tax id; the amount negated; the amount as a text
InvoicePool ==
    { Invoice(<<"F", "/", "1">>, <<2025, 11, 20>>, AsNumber(30000), <<"1", "2">>, <<"9">>),
      Invoice(<<"f", "-", "1">>, <<2025, 11, 20>>, AsNumber(30000), <<"1", " ", "2">>, <<"9">>),
      Invoice(<<>>, <<2025, 11, 20>>, AsNumber(30000), <<"1", "2">>, <<"9">>),
      Invoice(<<"F", "/", "9">>, <<2025, 11, 20>>, AsNumber(20000), <<"1", "2">>, <<"9">>),
      Invoice(<<"F", "/", "9">>, <<2025, 12, 1>>, AsNumber(30000), <<"1", "2">>, <<"9">>),
      Invoice(<<"F", "/", "1">>, <<2025, 11, 20>>, AsNumber(30005), <<"1", "2">>, <<"9">>),
      Invoice(<<>>, <<2025, 12, 1>>, AsNumber(30005), <<>>, <<"9">>),
      Invoice(<<"F", "/", "1">>, <<2025, 11, 20>>, AsNumber(-30000), <<"1", "2">>, <<"9">>),
      Invoice(<<"F", "/", "1">>, <<2025, 11, 21>>, AsText(<<"3", "0", "0", ",", "0", "0">>), <<"1", "2">>, <<"7">>) }

\* getAllInvoices of sheets.js: the rows without the header line, [] on error.
\* The matcher's own properties of a row (matched, partial, notes,
\* additionalInvoices) start undefined: FALSE, FALSE, <<>>, <<>>.
getAllInvoices(response) ==
    LET rows == response.values
        data == IF Len(rows) > 0 /\ rows[1].c0 = "Timestamp" THEN Tail(rows) ELSE rows
    IN  IF ~response.ok THEN <<>>
        ELSE [k \in 1..Len(data) |->
                [number |-> data[k].number, issueDate |-> data[k].issueDate,
                 amount |-> data[k].amount, seller |-> data[k].seller,
                 sellerTaxId |-> data[k].sellerTaxId, buyerTaxId |-> data[k].buyerTaxId,
                 matched |-> FALSE, partial |-> FALSE, notes |-> <<>>,
                 additionalInvoices |-> <<>>]]

(* ---------------------------------------------------------------------- *)
(* The four operations as a state machine                                   *)
(* ---------------------------------------------------------------------- *)

VARIABLES
    transactions,   \* the parsed statement, in file order
    skipSearch,     \* the fourth parameter
    pc,             \* "load", "loop", "searchMissing", "searchPartial", "done", "thrown";
                    \* "dupFetch", "dupScan", "dupDone"; "parse", "parsed";
                    \* "mt940", "mt940Done"
    invoices,       \* the rows of the registry with the matcher's marks
    idx,            \* the transaction the main loop is at
    matched,        \* [transaction, invoice, score, additionalInvoices, notes]
    missing,        \* [transaction, gmailStatus]
    exempt,         \* [transaction, reason]
    tried,          \* per transaction, the strategies whose code ran
    requests,       \* the calls of findMissingInvoice, in the order they started
    cursor,         \* the position of the running search loop
    attempts,       \* the calls of the sheet read rejected in a row
    data,           \* isDuplicate: the extracted invoice, <<>> outside isDuplicate
    dataRows,       \* isDuplicate: the rows of the registry
    row,            \* isDuplicate: the row the loop is at
    scores,         \* isDuplicate: the scores computed so far, by row
    duplicate,      \* isDuplicate: <<>> while it runs, then <<result>>
    lines,          \* parseBankStatement, parseMT940: the lines of the file
    lineNo,         \* parseBankStatement, parseMT940: the line the loop is at
    isHeader,       \* parseBankStatement: the header has not been seen yet
    parsed,         \* parseBankStatement: the transactions pushed so far
    objects,        \* parseMT940: the transaction objects created so far
    currentTx,      \* parseMT940: the object currentTx refers to, 0 for null
    buffer86,       \* parseMT940: the narrative collected
    pushed          \* parseMT940: transactions, as references to the objects

dedupVars == <<data, dataRows, row, scores, duplicate>>

mt940Vars == <<objects, currentTx, buffer86, pushed>>

parseVars == <<lines, lineNo, isHeader, parsed, mt940Vars>>

vars == <<transactions, skipSearch, pc, invoices, idx, matched, missing, exempt,
          tried, requests, cursor, attempts, dedupVars, parseVars>>

\* the entry of one of the operations: reconcileTransactions with a statement,
\* isDuplicate with an extracted invoice, parseBankStatement and parseMT940
\* with a file
Init ==
    /\ pc \in {"load", "dupFetch", "parse", "mt940"}
    /\ transactions \in IF pc = "load" THEN SeqsUpTo(TxPool, MaxTx) ELSE {<<>>}
    /\ skipSearch \in IF pc = "load" THEN BOOLEAN ELSE {FALSE}
    /\ invoices = <<>>
    /\ idx = 1
    /\ matched = <<>>
    /\ missing = <<>>
    /\ exempt = <<>>
    /\ tried = [i \in 1..Len(transactions) |-> <<>>]
    /\ requests = <<>>
    /\ cursor = 1
    /\ attempts = 0
    /\ data \in IF pc = "dupFetch" THEN InvoicePool ELSE {<<>>}
    /\ dataRows = <<>>
    /\ row = 1
    /\ scores = <<>>
    /\ duplicate = <<>>
    /\ lines \in IF pc = "parse" THEN SeqsUpTo(LinePool, MaxLines)
                 ELSE IF pc = "mt940" THEN SeqsUpTo(MT940LinePool, MaxLines)
                 ELSE {<<>>}
    /\ lineNo = 1
    /\ isHeader = TRUE
    /\ parsed = <<>>
    /\ objects = <<>>
    /\ currentTx = 0
    /\ buffer86 = <<>>
    /\ pushed = <<>>

\* one call of sheets.spreadsheets.values.get is rejected and withRetry repeats it
FetchRejected ==
    /\ pc \in {"load", "dupFetch"}
    /\ ~GivesUp(attempts)
    /\ attempts' = attempts + 1
    /\ UNCHANGED <<transactions, skipSearch, pc, invoices, idx, matched, missing,
                   exempt, tried, requests, cursor, dedupVars, parseVars>>

\* const invoices = await getAllInvoices(sheets, spreadsheetId)
\* the read succeeds, or it is rejected once more after the last retry and
\* getAllInvoices catches the error
LoadInvoices ==
    /\ pc = "load"
    /\ \E response \in SheetResponses :
           /\ response.ok \/ GivesUp(attempts)
           /\ invoices' = getAllInvoices(response)
           /\ attempts' = IF response.ok THEN 0 ELSE attempts + 1
    /\ pc' = "loop"
    /\ UNCHANGED <<transactions, skipSearch, idx, matched, missing, exempt, tried,
                   requests, cursor, dedupVars, parseVars>>

\* a variant of the income test that also skips a zero amount
IsIncomeOrZero(tx) == tx.amount >= 0

\* a variant of the income test that skips nothing
IsIncomeNever(tx) == FALSE

\* `if (tx.amount > 0) continue`
IsIncome(tx) == tx.amount > 0

SkipIncome ==
    /\ pc = "loop"
    /\ idx <= Len(transactions)
    /\ IsIncome(transactions[idx])
    /\ idx' = idx + 1
    /\ UNCHANGED <<transactions, skipSearch, pc, invoices, matched, missing, exempt,
                   tried, requests, cursor>>
    /\ UNCHANGED <<attempts, dedupVars, parseVars>>

\* the MatchResult pushed for transaction i
MatchResult(i, r) ==
    [transaction |-> i, invoice |-> r.bestMatch, score |-> r.bestScore,
     additionalInvoices |-> r.invoices[r.bestMatch].additionalInvoices, notes |-> <<>>]

\* one turn of the main loop for an outgoing transaction: the strategies, then
\* either the match is recorded and its invoices marked, or the transaction is
\* classified exempt or missing
Reconcile ==
    /\ pc = "loop"
    /\ idx <= Len(transactions)
    /\ ~IsIncome(transactions[idx])
    /\ \E tx \in {transactions[idx]} : \E r \in {MatchStrategies(tx, invoices)} :
           /\ ~r.throws
           /\ tried' = [tried EXCEPT ![idx] = r.tried]
           /\ IF Accepted(r.bestMatch, r.bestScore)
              THEN /\ invoices' = MarkMatched(r.invoices, r.bestMatch)
                   /\ matched' = Append(matched, MatchResult(idx, r))
                   /\ UNCHANGED <<missing, exempt>>
              ELSE /\ invoices' = r.invoices
                   /\ IF ExemptionCategory(tx) # <<>>
                      THEN /\ exempt' = Append(exempt, [transaction |-> idx,
                                                        reason |-> ExemptionCategory(tx)[1]])
                           /\ UNCHANGED missing
                      ELSE /\ missing' = Append(missing, [transaction |-> idx,
                                                          gmailStatus |-> <<>>])
                           /\ UNCHANGED exempt
                   /\ UNCHANGED matched
    /\ idx' = idx + 1
    /\ UNCHANGED <<transactions, skipSearch, pc, requests, cursor>>
    /\ UNCHANGED <<attempts, dedupVars, parseVars>>

\* Strategy 4 raises a TypeError: the promise of reconcileTransactions rejects
Throw ==
    /\ pc = "loop"
    /\ idx <= Len(transactions)
    /\ ~IsIncome(transactions[idx])
    /\ \E r \in {MatchStrategies(transactions[idx], invoices)} :
           /\ r.throws
           /\ tried' = [tried EXCEPT ![idx] = r.tried]
    /\ pc' = "thrown"
    /\ UNCHANGED <<transactions, skipSearch, invoices, idx, matched, missing, exempt,
                   requests, cursor>>
    /\ UNCHANGED <<attempts, dedupVars, parseVars>>

\* after the last transaction: `if (!skipSearch)`
EndLoop ==
    /\ pc = "loop"
    /\ idx > Len(transactions)
    /\ pc' = IF skipSearch THEN "done" ELSE "searchMissing"
    /\ cursor' = 1
    /\ UNCHANGED <<transactions, skipSearch, invoices, idx, matched, missing, exempt,
                   tried, requests>>
    /\ UNCHANGED <<attempts, dedupVars, parseVars>>

\* a call of findMissingInvoice that has started and not returned yet
Request(i, searchAmount) ==
    [transaction |-> i, searchAmount |-> searchAmount, returned |-> FALSE,
     queried |-> FALSE, failed |-> FALSE]

\* the call has returned with result
Returned(request, result) ==
    [request EXCEPT !.returned = TRUE, !.queried = result.queried, !.failed = result.failed]

\* a variant in which the loop does not wait for the call it made
AwaitedAlways(reqs) == TRUE

\* `await`: the loop goes on only when the call it made has returned
Awaited(reqs) == \A k \in 1..Len(reqs) : reqs[k].returned

\* a variant in which a transaction whose invoice was found leaves the list
AnnotateOrDrop(list, position, result) ==
    IF result.found
    THEN SubSeq(list, 1, position - 1) \o SubSeq(list, position + 1, Len(list))
    ELSE [list EXCEPT ![position].gmailStatus = GmailStatus(result)]

\* tx.gmailStatus = ...: the entry of the missing list is annotated in place
Annotate(list, position, result) ==
    [list EXCEPT ![position].gmailStatus = GmailStatus(result)]

\* one turn of `for (const tx of missing)`: findMissingInvoice(tx, auth) is called
SearchMissing ==
    /\ pc = "searchMissing"
    /\ cursor <= Len(missing)
    /\ Awaited(requests)
    /\ requests' = Append(requests, Request(missing[cursor].transaction, <<>>))
    /\ UNCHANGED <<transactions, skipSearch, pc, invoices, idx, matched, missing, exempt,
                   tried, cursor>>
    /\ UNCHANGED <<attempts, dedupVars, parseVars>>

\* the call returns and the transaction is annotated
SearchMissingReturn ==
    /\ pc = "searchMissing"
    /\ ~Awaited(requests)
    /\ \E outcome \in SearchOutcomes :
        \E result \in {findMissingInvoice(transactions[requests[Len(requests)].transaction],
                                          outcome)} :
            /\ requests' = [requests EXCEPT ![Len(requests)] = Returned(@, result)]
            /\ missing' = Annotate(missing, cursor, result)
    /\ cursor' = cursor + 1
    /\ UNCHANGED <<transactions, skipSearch, pc, invoices, idx, matched, exempt, tried>>
    /\ UNCHANGED <<attempts, dedupVars, parseVars>>

\* matched.filter(m => m.invoice.partial), as positions in matched
PartialMatches ==
    SelectSeq([j \in 1..Len(matched) |-> j], LAMBDA j : invoices[matched[j].invoice].partial)

\* the missing loop is over: partialMatches is computed
EndMissing ==
    /\ pc = "searchMissing"
    /\ cursor > Len(missing)
    /\ Awaited(requests)
    /\ pc' = "searchPartial"
    /\ cursor' = 1
    /\ UNCHANGED <<transactions, skipSearch, invoices, idx, matched, missing, exempt,
                   tried, requests>>
    /\ UNCHANGED <<attempts, dedupVars, parseVars>>

\* Math.abs(m.transaction.amount) - Math.abs(parseAmount(m.invoice[5]))
Remaining(m) ==
    Abs(transactions[m.transaction].amount) - Abs(parseAmount(invoices[m.invoice].amount))

\* one turn of `for (const m of partialMatches)`: findMissingInvoice is called
\* for the remainder when it is above 0.01, else the loop moves on
SearchPartial ==
    /\ pc = "searchPartial"
    /\ cursor <= Len(PartialMatches)
    /\ Awaited(requests)
    /\ \E m \in {matched[PartialMatches[cursor]]} :
           IF Remaining(m) > 1
           THEN /\ requests' = Append(requests, Request(m.transaction, <<Remaining(m)>>))
                /\ UNCHANGED cursor
           ELSE /\ cursor' = cursor + 1
                /\ UNCHANGED requests
    /\ UNCHANGED <<transactions, skipSearch, pc, invoices, idx, matched, missing, exempt,
                   tried>>
    /\ UNCHANGED <<attempts, dedupVars, parseVars>>

\* the call returns and the note is appended to m.notes
SearchPartialReturn ==
    /\ pc = "searchPartial"
    /\ ~Awaited(requests)
    /\ \E outcome \in SearchOutcomes : \E j \in {PartialMatches[cursor]} :
        \E result \in {findMissingInvoice(transactions[matched[j].transaction], outcome)} :
            /\ requests' = [requests EXCEPT ![Len(requests)] = Returned(@, result)]
            /\ matched' = [matched EXCEPT ![j].notes =
                    Append(@, [label |-> IF result.found THEN "FOUND REMAINING"
                                         ELSE "MISSING REMAINING",
                               remaining |-> toFixed2(Remaining(matched[j]))])]
    /\ cursor' = cursor + 1
    /\ UNCHANGED <<transactions, skipSearch, pc, invoices, idx, missing, exempt, tried>>
    /\ UNCHANGED <<attempts, dedupVars, parseVars>>

\* return { matched, missing, exempt }
Return ==
    /\ pc = "searchPartial"
    /\ cursor > Len(PartialMatches)
    /\ Awaited(requests)
    /\ pc' = "done"
    /\ UNCHANGED <<transactions, skipSearch, invoices, idx, matched, missing, exempt,
                   tried, requests, cursor>>
    /\ UNCHANGED <<attempts, dedupVars, parseVars>>

\* const dataRows = await getAllInvoices(sheets, spreadsheetId)
DupFetch ==
    /\ pc = "dupFetch"
    /\ \E response \in RegistryResponses :
           /\ response.ok \/ GivesUp(attempts)
           /\ dataRows' = getAllInvoices(response)
           /\ attempts' = IF response.ok THEN 0 ELSE attempts + 1
    /\ pc' = "dupScan"
    /\ UNCHANGED <<transactions, skipSearch, invoices, idx, matched, missing, exempt,
                   tried, requests, cursor, data, row, scores, duplicate, parseVars>>

\* one turn of `for (const row of dataRows)`: the score, and `return true`
\* when it reaches the threshold
DupScan ==
    /\ pc = "dupScan"
    /\ row <= Len(dataRows)
    /\ \E score \in {dedupScore(dataRows[row], data)} :
           /\ scores' = Append(scores, score)
           /\ IF ReachesThreshold(score)
              THEN /\ duplicate' = <<TRUE>>
                   /\ pc' = "dupDone"
                   /\ UNCHANGED row
              ELSE /\ row' = row + 1
                   /\ UNCHANGED <<duplicate, pc>>
    /\ UNCHANGED <<transactions, skipSearch, invoices, idx, matched, missing, exempt,
                   tried, requests, cursor, attempts, data, dataRows, parseVars>>

\* after the last row: return false
DupReturnFalse ==
    /\ pc = "dupScan"
    /\ row > Len(dataRows)
    /\ duplicate' = <<FALSE>>
    /\ pc' = "dupDone"
    /\ UNCHANGED <<transactions, skipSearch, invoices, idx, matched, missing, exempt,
                   tried, requests, cursor, attempts, data, dataRows, row, scores,
                   parseVars>>

\* one turn of `for await (const line of rl)`
ParseLine ==
    /\ pc = "parse"
    /\ lineNo <= Len(lines)
    /\ \E line \in {lines[lineNo]} :
           IF IsBlank(line) THEN UNCHANGED <<isHeader, parsed>>
           ELSE IF IsHeaderLine(line) THEN isHeader' = FALSE /\ UNCHANGED parsed
           ELSE IF isHeader THEN UNCHANGED <<isHeader, parsed>>
           ELSE IF MalformedLine(split(line)) THEN UNCHANGED <<isHeader, parsed>>
           ELSE parsed' = Append(parsed, parseLine(line)) /\ UNCHANGED isHeader
    /\ lineNo' = lineNo + 1
    /\ UNCHANGED <<transactions, skipSearch, pc, invoices, idx, matched, missing,
                   exempt, tried, requests, cursor, attempts, dedupVars, lines, mt940Vars>>

\* return transactions
ParseReturn ==
    /\ pc = "parse"
    /\ lineNo > Len(lines)
    /\ pc' = "parsed"
    /\ UNCHANGED <<transactions, skipSearch, invoices, idx, matched, missing, exempt,
                   tried, requests, cursor, attempts, dedupVars, parseVars>>

\* if (currentTx) { parse86(currentTx, buffer86); transactions.push(currentTx) }
\* on the objects and on the list of references
Described(objs, tx, buffer) ==
    IF tx # 0 THEN [objs EXCEPT ![tx] = parse86(@, buffer)] ELSE objs

Finished(list, tx) == IF tx # 0 THEN Append(list, tx) ELSE list

\* one turn of `for (let i = 0; i < lines.length; i++)`
MT940Line ==
    /\ pc = "mt940"
    /\ lineNo <= Len(lines)
    /\ \E line \in {lines[lineNo]} :
           IF startsWith(line, Tag61)
           THEN \E m \in {match61(SubSeq(line, 5, Len(line)))} :
                   /\ pushed' = Finished(pushed, currentTx)
                   /\ IF m # <<>>
                      THEN /\ objects' = Append(Described(objects, currentTx, buffer86),
                                                newTransaction(line, m[1]))
                           /\ currentTx' = Len(objects) + 1
                           /\ buffer86' = <<>>
                      ELSE /\ objects' = Described(objects, currentTx, buffer86)
                           /\ UNCHANGED <<currentTx, buffer86>>
           ELSE IF startsWith(line, Tag86)
           THEN /\ buffer86' = buffer86 \o SubSeq(line, 5, Len(line))
                /\ UNCHANGED <<objects, currentTx, pushed>>
           ELSE IF currentTx # 0 /\ ~startsWith(line, <<":">>)
           THEN /\ buffer86' = buffer86 \o line
                /\ UNCHANGED <<objects, currentTx, pushed>>
           ELSE IF startsWith(line, <<":">>)
           THEN /\ objects' = Described(objects, currentTx, buffer86)
                /\ pushed' = Finished(pushed, currentTx)
                /\ currentTx' = 0
                /\ buffer86' = IF currentTx # 0 THEN <<>> ELSE buffer86
           ELSE UNCHANGED mt940Vars
    /\ lineNo' = lineNo + 1
    /\ UNCHANGED <<transactions, skipSearch, pc, invoices, idx, matched, missing,
                   exempt, tried, requests, cursor, attempts, dedupVars, lines,
                   isHeader, parsed>>

\* after the loop: the last transaction is pushed; return transactions
MT940Return ==
    /\ pc = "mt940"
    /\ lineNo > Len(lines)
    /\ objects' = Described(objects, currentTx, buffer86)
    /\ pushed' = Finished(pushed, currentTx)
    /\ pc' = "mt940Done"
    /\ UNCHANGED <<transactions, skipSearch, invoices, idx, matched, missing, exempt,
                   tried, requests, cursor, attempts, dedupVars, lines, lineNo,
                   isHeader, parsed, currentTx, buffer86>>

Next ==
    \/ FetchRejected
    \/ LoadInvoices
    \/ SkipIncome
    \/ Reconcile
    \/ Throw
    \/ EndLoop
    \/ SearchMissing
    \/ SearchMissingReturn
    \/ EndMissing
    \/ SearchPartial
    \/ SearchPartialReturn
    \/ Return
    \/ DupFetch
    \/ DupScan
    \/ DupReturnFalse
    \/ ParseLine
    \/ ParseReturn
    \/ MT940Line
    \/ MT940Return

Spec == Init /\ [][Next]_vars


(* ---------------------------------------------------------------------- *)
(* Properties                                                               *)
(* ---------------------------------------------------------------------- *)

Done == pc = "done"

\* the invoices MatchResult j refers to: the primary and the additional ones
Refs(j) ==
    {matched[j].invoice}
    \cup {matched[j].additionalInvoices[a] : a \in 1..Len(matched[j].additionalInvoices)}

\* in how many of the three lists transaction i appears
Occurrences(i) ==
    Cardinality({j \in 1..Len(matched) : matched[j].transaction = i})
    + Cardinality({j \in 1..Len(missing) : missing[j].transaction = i})
    + Cardinality({j \in 1..Len(exempt) : exempt[j].transaction = i})

\* C1: after reconcileTransactions finishes, every invoice a MatchResult
\* refers to, as primary or as additional invoice, has matched = true, and no
\* invoice is referred to by two different MatchResults.
ConsumptionInvariant ==
    Done =>
        /\ \A j \in 1..Len(matched) : \A k \in Refs(j) : invoices[k].matched
        /\ \A j1, j2 \in 1..Len(matched) : j1 # j2 => Refs(j1) \cap Refs(j2) = {}

\* two transactions that are the same statement line were both matched, each
\* to an invoice of its own
TwoMatchesOfEqualLines ==
    /\ Done
    /\ Len(matched) = 2
    /\ transactions[1] = transactions[2]
    /\ matched[1].invoice # matched[2].invoice

\* C2 as stated: after reconcileTransactions finishes, every transaction of
\* the input appears in exactly one of matched, missing and exempt.
EveryTransactionInOneList ==
    Done => \A i \in 1..Len(transactions) : Occurrences(i) = 1

\* C2: after reconcileTransactions finishes, every transaction whose amount is
\* not positive appears in exactly one of matched, missing and exempt, and
\* every transaction with a positive amount appears in none of them.
EveryOutgoingInOneList ==
    Done => \A i \in 1..Len(transactions) :
                Occurrences(i) = IF transactions[i].amount > 0 THEN 0 ELSE 1

\* a finished run over an incoming line, which is in no list, and a
\* zero-amount line, which is in one
IncomingAndZeroClassified ==
    /\ Done
    /\ \E i, j \in 1..Len(transactions) :
          /\ transactions[i].amount > 0 /\ Occurrences(i) = 0
          /\ transactions[j].amount = 0 /\ Occurrences(j) = 1

\* C3: a transaction that reaches the exemption classifier (it ends up in
\* missing or exempt) has had Strategies 1, 2, 3 and 4 tried on it, in this
\* order, also when the best candidate of Strategy 1 scored 50 or 60.
AllStrategiesTriedBeforeExemption ==
    /\ \A j \in 1..Len(missing) : tried[missing[j].transaction] = <<1, 2, 3, 4>>
    /\ \A j \in 1..Len(exempt) : tried[exempt[j].transaction] = <<1, 2, 3, 4>>

\* the transaction the main loop is about to process is an outgoing one
OutgoingTurn == pc = "loop" /\ idx <= Len(transactions) /\ transactions[idx].amount < 0

\* the distance of the absolute amounts of the transaction at hand and invoice k
Distance(k) == Abs(Abs(transactions[idx].amount) - Abs(parseAmount(invoices[k].amount)))

\* seller of invoice k and counterparty of the transaction at hand are not
\* empty and one contains the other
SellerMatchesCounterparty(k) ==
    /\ toLowerCase(invoices[k].seller) # <<>>
    /\ transactions[idx].counterparty # <<>>
    /\ \/ includes(toLowerCase(transactions[idx].counterparty), toLowerCase(invoices[k].seller))
       \/ includes(toLowerCase(invoices[k].seller), toLowerCase(transactions[idx].counterparty))

RECURSIVE SumOfAmounts(_)
SumOfAmounts(S) ==
    IF S = {} THEN 0
    ELSE LET k == CHOOSE x \in S : TRUE
         IN  Abs(parseAmount(invoices[k].amount)) + SumOfAmounts(S \ {k})

\* the sets of 2 to 9 unconsumed invoices of the counterparty, each of a
\* positive amount, that add up to the amount of the transaction at hand
Combinations ==
    {S \in SUBSET (1..Len(invoices)) :
        /\ Cardinality(S) >= 2 /\ Cardinality(S) <= 9
        /\ \A k \in S : /\ ~invoices[k].matched
                        /\ SellerMatchesCounterparty(k)
                        /\ Abs(parseAmount(invoices[k].amount)) > 0
        /\ Abs(SumOfAmounts(S) - Abs(transactions[idx].amount)) <= 5}

\* C4: when the absolute amount of an outgoing transaction is, within 0.05,
\* the sum of 2 to 9 unconsumed invoices whose seller matches the counterparty
\* and no single invoice has that amount, its turn produces one MatchResult with score 95
\* whose invoice and additionalInvoices together are such a set, and every
\* invoice of the set is consumed.
SubsetSumMatched ==
    [][ (/\ OutgoingTurn
         /\ Combinations # {}
         /\ \A k \in 1..Len(invoices) : ~invoices[k].matched => Distance(k) >= 5)
        => /\ Len(matched') = Len(matched) + 1
           /\ LET m == matched'[Len(matched')]
                  S == {m.invoice} \cup {m.additionalInvoices[a] : a \in 1..Len(m.additionalInvoices)}
              IN  /\ m.transaction = idx
                  /\ m.score = 95
                  /\ S \in Combinations
                  /\ Len(m.additionalInvoices) = Cardinality(S) - 1
                  /\ \A k \in S : invoices'[k].matched ]_vars

\* the registry as loaded: the rows without the marks of the matcher
Fresh(invs) ==
    [k \in 1..Len(invs) |->
        [invs[k] EXCEPT !.matched = FALSE, !.partial = FALSE, !.notes = <<>>,
                        !.additionalInvoices = <<>>]]

\* the single invoice transaction i selects when it is matched on its own
\* against the registry as loaded, 0 when it selects none or a combination
FreshChoice(i) ==
    The({IF ~r.throws /\ Accepted(r.bestMatch, r.bestScore)
            /\ r.invoices[r.bestMatch].additionalInvoices = <<>>
         THEN r.bestMatch ELSE 0
         : r \in {MatchStrategies(transactions[i], Fresh(invoices))}})

\* transaction i was matched and invoice k is one of the invoices of the match
Holds(i, k) == \E j \in 1..Len(matched) : matched[j].transaction = i /\ k \in Refs(j)

\* C5: when two outgoing transactions would each select the same single
\* invoice, and no transaction before them has taken it, the one that comes
\* first in the file is matched to it and the later one is not.
EarliestInFileWins ==
    Done =>
        \A i, j \in 1..Len(transactions) :
            (i < j /\ transactions[i].amount <= 0 /\ transactions[j].amount <= 0) =>
                \A k \in {FreshChoice(i)} :
                    (/\ k # 0
                     /\ \A h \in 1..(i - 1) : ~Holds(h, k)
                     /\ FreshChoice(j) = k)
                    => /\ \E m \in 1..Len(matched) :
                             matched[m].transaction = i /\ matched[m].invoice = k
                       /\ ~Holds(j, k)

\* two different lines that would both select the first invoice: the first
\* line has it, the second is missing
LaterLineLeftMissing ==
    /\ Done
    /\ Len(transactions) = 2 /\ transactions[1] # transactions[2]
    /\ transactions[1].amount <= 0 /\ transactions[2].amount <= 0
    /\ Len(invoices) >= 1
    /\ FreshChoice(1) = 1 /\ FreshChoice(2) = 1
    /\ Len(matched) = 1 /\ matched[1].transaction = 1 /\ matched[1].invoice = 1
    /\ Len(missing) = 1 /\ missing[1].transaction = 2

\* C6: a transaction with a positive amount is never matched, never causes
\* an invoice to be consumed (a consumed invoice belongs to a MatchResult, and
\* every MatchResult is of a transaction that is not positive) and is never
\* searched for in the mailbox.
IncomingNeverProcessed ==
    /\ \A j \in 1..Len(matched) : transactions[matched[j].transaction].amount <= 0
    /\ \A k \in 1..Len(invoices) :
          invoices[k].matched => \E j \in 1..Len(matched) : k \in Refs(j)
    /\ \A j \in 1..Len(requests) : transactions[requests[j].transaction].amount <= 0
    /\ \A i \in 1..Len(transactions) : transactions[i].amount > 0 => tried[i] = <<>>

\* a finished run with searches in which an incoming line left an invoice of
\* exactly its amount unconsumed
IncomingLeftInvoiceAlone ==
    /\ Done
    /\ requests # <<>>
    /\ \E i \in 1..Len(transactions) : \E k \in 1..Len(invoices) :
          /\ transactions[i].amount > 0
          /\ ~invoices[k].matched
          /\ Abs(transactions[i].amount) = Abs(parseAmount(invoices[k].amount))

\* C7: Strategy 1 takes an invoice as candidate only if the absolute amounts
\* of transaction and invoice differ by less than 0.05: a match made by
\* Strategy 1 is of such a pair, and where Strategy 1 ended the matching such
\* an invoice is in the registry.
ExactMatchWithinTolerance ==
    /\ \A j \in 1..Len(matched) :
          tried[matched[j].transaction] = <<1>> =>
              Abs(Abs(transactions[matched[j].transaction].amount)
                  - Abs(parseAmount(invoices[matched[j].invoice].amount))) < 5
    /\ \A i \in 1..Len(transactions) :
          tried[i] = <<1>> =>
              \E k \in 1..Len(invoices) :
                  Abs(Abs(transactions[i].amount) - Abs(parseAmount(invoices[k].amount))) < 5

\* Strategy 1 matched one line, and found no candidate for another line
\* although an invoice is exactly 0.05 away from it
ExactMatchPassesOverFiveCents ==
    /\ \E j \in 1..Len(matched) : tried[matched[j].transaction] = <<1>>
    /\ \E i \in 1..Len(transactions) : \E k \in 1..Len(invoices) :
          /\ tried[i] # <<>> /\ tried[i] # <<1>>
          /\ Abs(Abs(transactions[i].amount) - Abs(parseAmount(invoices[k].amount))) = 5

\* transaction date and issue date of MatchResult j are valid and at most 7
\* days apart
DatesWithinWeek(j) ==
    LET txDate  == parseDate(transactions[matched[j].transaction].date)
        invDate == parseInvoiceDate(invoices[matched[j].invoice].issueDate)
    IN  /\ txDate # <<>> /\ invDate # <<>>
        /\ Abs(txDate[1] - invDate[1]) <= 7

\* the amounts of MatchResult j are within 0.05 of each other
AmountsWithinFiveCents(j) ==
    Abs(Abs(transactions[matched[j].transaction].amount)
        - Abs(parseAmount(invoices[matched[j].invoice].amount))) <= 5

Text == toLowerCase(transactions[idx].counterparty \o <<" ">> \o transactions[idx].description)

\* a string reduced to its characters a-z and 0-9
Normalized(str) == stripNonAlnum(toLowerCase(str))

\* Strategy 1 finds nothing: no unconsumed invoice is within 0.05
NothingExact == \A k \in 1..Len(invoices) : ~invoices[k].matched => Distance(k) >= 5

\* the amounts differ by less than 100 or by less than 10% of the invoice's
NumberAmountClose(k) ==
    Distance(k) < 10000 \/ 10 * Distance(k) < Abs(parseAmount(invoices[k].amount))

\* the unconsumed invoices whose normalized number, of length 3 or more,
\* occurs in the normalized text, with a close amount
NormalizedNumberHits ==
    {k \in 1..Len(invoices) :
        /\ ~invoices[k].matched
        /\ Len(Normalized(invoices[k].number)) >= 3
        /\ includes(Normalized(Text), Normalized(invoices[k].number))
        /\ NumberAmountClose(k)}

\* the unconsumed invoices whose trimmed lower-case number, of length 3 or
\* more, occurs in the text as it is, or, when longer than 5, occurs in the
\* text after both are normalized, with a close amount
LiteralNumberHits ==
    {k \in 1..Len(invoices) :
        /\ ~invoices[k].matched
        /\ Len(toLowerCase(trim(invoices[k].number))) >= 3
        /\ \/ includes(Text, toLowerCase(trim(invoices[k].number)))
           \/ /\ Len(toLowerCase(trim(invoices[k].number))) > 5
              /\ includes(Normalized(Text), Normalized(trim(invoices[k].number)))
        /\ NumberAmountClose(k)}

Least(S) == CHOOSE k \in S : \A j \in S : k <= j

\* the turn records the match of the transaction at hand to invoice k alone
MatchedTo(k, score) ==
    /\ matched' = Append(matched, [transaction |-> idx, invoice |-> k, score |-> score,
                                   additionalInvoices |-> <<>>, notes |-> <<>>])
    /\ invoices'[k].matched

\* C9 as stated: when Strategy 1 finds nothing and the normalized number
\* (length >= 3) of an unconsumed invoice occurs in the normalized text of the
\* transaction with a close amount, the transaction is matched to the first
\* such invoice with score 85.
NormalizedNumberMatch ==
    [][ (OutgoingTurn /\ NothingExact /\ NormalizedNumberHits # {})
        => MatchedTo(Least(NormalizedNumberHits), 85) ]_vars

\* C9: when Strategy 1 finds nothing and the trimmed lower-case number (length
\* >= 3) of an unconsumed invoice occurs literally in the lower-case text of
\* the transaction, or, for a number longer than 5, occurs in it after both
\* are reduced to a-z0-9, with a close amount, the transaction is matched to
\* the first such invoice with score 85.
LiteralNumberMatch ==
    [][ (OutgoingTurn /\ NothingExact /\ LiteralNumberHits # {})
        => MatchedTo(Least(LiteralNumberHits), 85) ]_vars

\* a line naming F/12 and AB/123 was matched with score 85 to invoice AB-123,
\* 40 away, passing over the unconsumed invoice F-12 before it
NumberMatchPassesOverShortNumber ==
    /\ Len(invoices) = 2 /\ Len(matched) >= 1
    /\ matched[1].score = 85 /\ matched[1].invoice = 2
    /\ Abs(Abs(transactions[matched[1].transaction].amount)
           - Abs(parseAmount(invoices[2].amount))) = 4000
    /\ invoices[1].number = <<"F", "-", "1", "2">> /\ ~invoices[1].matched

\* Strategy 3 is reached: Strategies 1 and 2 found nothing
Strategy3Turn == OutgoingTurn /\ NothingExact /\ LiteralNumberHits = {}

\* invoice k is unconsumed, has a seller, and the seller matches the
\* transaction at hand
Related(k) ==
    /\ ~invoices[k].matched
    /\ toLowerCase(invoices[k].seller) # <<>>
    /\ SellerRelated(transactions[idx], invoices[k])

PassesFuzzy(k) == FuzzyAmountOk(transactions[idx].amount, parseAmount(invoices[k].amount))

\* the scan of Strategy 3 comes to invoice k, seller-matched, and k fails the
\* fuzzy-amount test
FailsFuzzy(k) ==
    /\ Related(k) /\ ~PassesFuzzy(k)
    /\ \A f \in 1..(k - 1) : ~(Related(f) /\ PassesFuzzy(f))

\* the amount of the transaction exceeds that of invoice k by more than 50
Exceeds(k) ==
    Abs(transactions[idx].amount) > Abs(parseAmount(invoices[k].amount)) + 5000

\* k is due for a partial match: it is exceeded and no candidate has been
\* found before it
PartialDue(k) ==
    /\ FailsFuzzy(k) /\ Exceeds(k)
    /\ \A e \in 1..(k - 1) : ~(FailsFuzzy(e) /\ Exceeds(e))

\* the turn stamps invoice k partial, with the remainder in the note
Recorded(k) ==
    /\ invoices'[k].partial
    /\ invoices'[k].notes =
         <<[label |-> "Partial Match. Remaining",
            remaining |-> toFixed2(Abs(transactions[idx].amount)
                                   - Abs(parseAmount(invoices[k].amount)))]>>

\* the turn leaves the partial flag and the note of invoice k as they were
NotRecorded(k) ==
    /\ invoices'[k].partial = invoices[k].partial
    /\ invoices'[k].notes = invoices[k].notes

\* C10 as stated: in Strategy 3, for a seller-matched invoice that fails the
\* fuzzy-amount test, a partial match is recorded exactly when the transaction
\* exceeds the invoice by more than 50 and no candidate has been found yet;
\* the resulting MatchResult has score 70 and this invoice, stamped partial
\* with the remainder in its note.
PartialMatchIsTheResult ==
    [][ Strategy3Turn =>
          \A k \in 1..Len(invoices) :
              FailsFuzzy(k) =>
                  IF PartialDue(k) THEN Recorded(k) /\ MatchedTo(k, 70)
                  ELSE NotRecorded(k) ]_vars

\* a later invoice of the same scan passes the fuzzy-amount test
LaterFuzzy(k) == {f \in (k + 1)..Len(invoices) : Related(f) /\ PassesFuzzy(f)}

\* C10: in Strategy 3, for a seller-matched invoice that fails the
\* fuzzy-amount test, a partial match is recorded exactly when the transaction
\* exceeds the invoice by more than 50 and no candidate has been found yet;
\* the resulting MatchResult has score 70 and this invoice, stamped partial
\* with the remainder in its note, unless a later invoice of the scan passes
\* the fuzzy-amount test: then the MatchResult is of the first such invoice,
\* with score 75, and the stamp stays on the earlier invoice.
PartialMatchUnlessLaterFuzzy ==
    [][ Strategy3Turn =>
          \A k \in 1..Len(invoices) :
              FailsFuzzy(k) =>
                  IF PartialDue(k)
                  THEN /\ Recorded(k)
                       /\ IF LaterFuzzy(k) = {} THEN MatchedTo(k, 70)
                          ELSE MatchedTo(Least(LaterFuzzy(k)), 75)
                  ELSE NotRecorded(k) ]_vars

\* the first line stamped the first invoice partial and was then matched to
\* the second with score 75; the second line was matched to the first invoice
\* as a partial match with score 70
PartialSupersededThenTaken ==
    /\ Len(matched) = 2 /\ Len(invoices) = 2
    /\ matched[1].score = 75 /\ matched[1].invoice = 2
    /\ matched[2].score = 70 /\ matched[2].invoice = 1
    /\ invoices[1].partial
    /\ invoices[1].notes # <<>>

(* ---------------------------------------------------------------------- *)
(* Duplicate detection                                                      *)
(* ---------------------------------------------------------------------- *)

DupDone == pc = "dupDone"

\* the letters and digits of a text, in lower case
Significant(str) ==
    toLowerCase(SelectSeq(str, LAMBDA c : c \in LowerLetters \cup DOMAIN UpperToLower \cup Digits))

\* how far the amount of registry row k is from the amount of the invoice
AmountGap(k) == Abs(parseAmount(dataRows[k].amount) - targetAmount(data))

AmountAgrees(k) == AmountGap(k) < 5

DateAgrees(k) == dataRows[k].issueDate = data.issue_date

\* the invoice has a number and row k has the same one up to formatting
NumberAgrees(k) ==
    Significant(data.number) # <<>> /\ Significant(dataRows[k].number) = Significant(data.number)

\* the invoice has a seller tax id and row k has the same one up to formatting
SellerAgrees(k) ==
    /\ Significant(data.seller_tax_id) # <<>>
    /\ Significant(dataRows[k].sellerTaxId) = Significant(data.seller_tax_id)

StatedScore(k) ==
    (IF AmountAgrees(k) THEN 40 ELSE 0) + (IF DateAgrees(k) THEN 30 ELSE 0)
    + (IF NumberAgrees(k) THEN 20 ELSE 0) + (IF SellerAgrees(k) THEN 20 ELSE 0)

AgreeingFields(k) ==
    {f \in {"amount", "date", "number", "sellerTaxId"} :
        CASE f = "amount" -> AmountAgrees(k)
          [] f = "date" -> DateAgrees(k)
          [] f = "number" -> NumberAgrees(k)
          [] f = "sellerTaxId" -> SellerAgrees(k)}

\* C13: a score of 80 or more for a row means that at least two of amount,
\* date, number and seller tax id agree between the invoice and the row (a
\* number or tax id agrees when both sides have one and they are equal after
\* normalization)
HighScoreNeedsTwoFields ==
    pc \in {"dupScan", "dupDone"} =>
        \A k \in 1..Len(scores) : scores[k] >= 80 => Cardinality(AgreeingFields(k)) >= 2

\* a row scored 80 or more although its date is not the invoice's
HighScoreWithoutDate ==
    /\ pc \in {"dupScan", "dupDone"}
    /\ \E k \in 1..Len(scores) : scores[k] >= 80 /\ ~DateAgrees(k)

\* C14: every score, of a registry row against an extracted invoice and of a
\* transaction against the invoice it is matched with, is an integer from 0 to
\* 100
ScoresWithinHundred ==
    /\ \A k \in 1..Len(scores) : scores[k] \in 0..100
    /\ \A j \in 1..Len(matched) : matched[j].score \in 0..100

\* invoice b is invoice a with the case or the punctuation of the number or of
\* the seller tax id changed
FormattingVariant(a, b) ==
    /\ a.issue_date = b.issue_date
    /\ a.total_amount = b.total_amount
    /\ a.buyer_tax_id = b.buyer_tax_id
    /\ Significant(a.number) = Significant(b.number)
    /\ Significant(a.seller_tax_id) = Significant(b.seller_tax_id)

\* what isDuplicate returns for invoice d against the rows read
ResultFor(d) ==
    \E k \in 1..Len(dataRows) : ReachesThreshold(dedupScore(dataRows[k], d))

\* C15: an invoice that differs from the one checked only by the case or the
\* non-alphanumeric characters of its number or seller tax id gets the same
\* answer from isDuplicate on the same registry
FormattingDoesNotChangeResult ==
    DupDone =>
        \A d \in InvoicePool : FormattingVariant(data, d) => (duplicate = <<ResultFor(d)>>)

\* isDuplicate returned true for an invoice whose number is written otherwise
\* than the row's, and another notation of the same invoice exists
DuplicateFoundAcrossNotations ==
    /\ DupDone /\ duplicate = <<TRUE>>
    /\ dataRows[row].number # data.number
    /\ dataRows[row].sellerTaxId # data.seller_tax_id
    /\ \E d \in InvoicePool : d # data /\ FormattingVariant(data, d)

RecurringInvoiceIsNoDuplicate ==
    pc \in {"dupScan", "dupDone"} =>
        \A k \in 1..Len(scores) :
            (~DateAgrees(k) /\ ~NumberAgrees(k)) =>
                /\ scores[k] < 80
                /\ ~(duplicate = <<TRUE>> /\ row = k)

\* isDuplicate returned false although a row agrees in amount and seller tax
\* id, the date and the number being others
SameAmountAndSellerLaterDate ==
    /\ DupDone /\ duplicate = <<FALSE>>
    /\ \E k \in 1..Len(dataRows) :
          /\ AmountAgrees(k) /\ SellerAgrees(k) /\ ~DateAgrees(k)
          /\ data.number # <<>> /\ ~NumberAgrees(k)

\* C18: an invoice without a number is reported as a duplicate when a row
\* agrees with it in amount, in issue date and in seller tax id
MissingNumberStillDuplicate ==
    DupDone =>
        \A k \in 1..Len(dataRows) :
            (data.number = <<>> /\ AmountAgrees(k) /\ DateAgrees(k) /\ SellerAgrees(k))
                => duplicate = <<TRUE>>

\* isDuplicate returned true for an invoice without a number, on a row scoring 90
DuplicateWithoutNumber ==
    /\ DupDone /\ duplicate = <<TRUE>>
    /\ data.number = <<>>
    /\ scores[row] = 90

(* ---------------------------------------------------------------------- *)
(* Registry read failure                                                    *)
(* ---------------------------------------------------------------------- *)

\* the read was rejected on the first call and on each of the three retries
FetchFailed == attempts = Retries + 1

\* C19: when the read of the registry fails after its retries, getAllInvoices
\* gives an empty list and nothing is raised: reconcileTransactions does not
\* throw, matches nothing, and once its main loop is over every transaction
\* that is not incoming is in missing or in exempt; isDuplicate returns false
RegistryFailureDegrades ==
    FetchFailed =>
        /\ invoices = <<>> /\ dataRows = <<>>
        /\ matched = <<>>
        /\ pc # "thrown"
        /\ pc \in {"searchMissing", "searchPartial", "done"} =>
              \A i \in 1..Len(transactions) :
                  transactions[i].amount <= 0 =>
                      Cardinality({j \in 1..Len(missing) : missing[j].transaction = i})
                      + Cardinality({j \in 1..Len(exempt) : exempt[j].transaction = i}) = 1
        /\ DupDone => duplicate = <<FALSE>>

\* reconcileTransactions finished after a failed read with one transaction
\* missing and one exempt
RunCompletedWithoutRegistry ==
    /\ FetchFailed /\ Done
    /\ Len(missing) = 1 /\ Len(exempt) = 1

\* isDuplicate returned after a failed read
DuplicateCheckWithoutRegistry == FetchFailed /\ DupDone

(* ---------------------------------------------------------------------- *)
(* Statement parsing                                                        *)
(* ---------------------------------------------------------------------- *)

\* the positions of the commas of a line
Commas(str) == {i \in 1..Len(str) : str[i] = ","}

\* the k-th element of a set of positions, counted from 1
NthOf(S, k) == CHOOSE i \in S : Cardinality({j \in S : j <= i}) = k

LastComma(str) == CHOOSE i \in Commas(str) : \A j \in Commas(str) : j <= i

\* token k of a line (k from 1, not the last), as the text between two commas
Field(str, k) == SubSeq(str, NthOf(Commas(str), k) + 1, NthOf(Commas(str), k + 1) - 1)

\* the lines read so far that are data lines: after a header line, not blank
\* and not a header line themselves
DataLines ==
    {i \in 1..(lineNo - 1) :
        /\ ~IsBlank(lines[i]) /\ ~IsHeaderLine(lines[i])
        /\ \E h \in 1..(i - 1) : IsHeaderLine(lines[h])}

\* the data lines of nine tokens or more
Kept == {i \in DataLines : Cardinality(Commas(lines[i])) + 1 >= 9}

\* C20: a data line of fewer than nine comma-separated tokens is discarded;
\* every other data line gives one transaction, in file order, whose amount is
\* token 3 read as a decimal number, whose counterparty is token 5 and whose
\* description is the text between the seventh and the last comma, so that
\* tokens 0..6, the description and the last token, joined by commas, are the
\* raw line again
DelimitedLineParsing ==
    pc \in {"parse", "parsed"} =>
        /\ Len(parsed) = Cardinality(Kept)
        /\ \A j \in 1..Len(parsed) : \A raw \in {lines[NthOf(Kept, j)]} :
              /\ parsed[j].raw = raw
              /\ parsed[j].amount = parseFloat(Field(raw, 3))
              /\ parsed[j].counterparty = Field(raw, 5)
              /\ parsed[j].description =
                     SubSeq(raw, NthOf(Commas(raw), 7) + 1, LastComma(raw) - 1)
              /\ SubSeq(raw, 1, NthOf(Commas(raw), 7)) \o parsed[j].description
                     \o SubSeq(raw, LastComma(raw), Len(raw)) = raw

\* the file is read: a line of eight tokens was discarded and a line whose
\* title holds commas gave a transaction of -1204.63
TitleWithCommasParsed ==
    /\ pc = "parsed"
    /\ Cardinality(DataLines) > Cardinality(Kept)
    /\ \E j \in 1..Len(parsed) :
          /\ parsed[j].amount = <<-120463>>
          /\ Commas(parsed[j].description) # {}
          /\ parsed[j].counterparty # <<>>

\* C11: a transaction that is not incoming, whose type is the fee type and that
\* no strategy matches is exempt with category FEES and not missing, both when
\* reconcileTransactions is handed it and when the statement parser produced it
\* from a line whose operation type is the fee type
FeeTypeIsExempt ==
    /\ pc \in {"searchMissing", "searchPartial", "done"} =>
          \A i \in 1..Len(transactions) :
              (/\ transactions[i].type = FeeType /\ transactions[i].amount <= 0
               /\ \A j \in 1..Len(matched) : matched[j].transaction # i)
              => /\ \E j \in 1..Len(exempt) :
                       exempt[j].transaction = i /\ exempt[j].reason = "FEES"
                 /\ \A j \in 1..Len(missing) : missing[j].transaction # i
    /\ pc = "parsed" =>
          \A j \in 1..Len(parsed) :
              (/\ Field(parsed[j].raw, 2) = FeeType
               /\ parsed[j].amount # <<>> /\ parsed[j].amount[1] <= 0)
              => ExemptionCategory(parsed[j]) = <<"FEES">>

(* ---------------------------------------------------------------------- *)
(* Recovery                                                                 *)
(* ---------------------------------------------------------------------- *)

Recovering == pc \in {"searchMissing", "searchPartial"}

\* what the matching loop decided: who is matched with which invoices and
\* score, who is missing, who is exempt, which invoices are consumed
Classification ==
    << [j \in 1..Len(matched) |->
           <<matched[j].transaction, matched[j].invoice, matched[j].score,
             matched[j].additionalInvoices>>],
       [j \in 1..Len(missing) |-> missing[j].transaction],
       exempt,
       [k \in 1..Len(invoices) |-> invoices[k].matched] >>

InFlight == {k \in 1..Len(requests) : ~requests[k].returned}

\* C25 as stated: requests are made only when every transaction is classified,
\* a request starts only when the one before has returned, the requests follow
\* the order of the transactions in the file, and skipSearch = true means no
\* request at all
RequestsInFileOrder ==
    /\ requests # <<>> => (Recovering \/ Done)
    /\ Cardinality(InFlight) <= 1
    /\ \A a, b \in 1..Len(requests) :
          a < b => requests[a].transaction < requests[b].transaction
    /\ skipSearch => requests = <<>>

\* C25 as the code has it: the same, the order being file order within the
\* requests for missing transactions and within the requests for remainders,
\* the former all before the latter
RequestsInFileOrderPerPass ==
    /\ requests # <<>> => (Recovering \/ Done)
    /\ Cardinality(InFlight) <= 1
    /\ \A a, b \in 1..Len(requests) :
          a < b =>
              /\ requests[a].searchAmount # <<>> => requests[b].searchAmount # <<>>
              /\ (requests[a].searchAmount = <<>>) = (requests[b].searchAmount = <<>>)
                    => requests[a].transaction < requests[b].transaction
    /\ skipSearch => requests = <<>>

\* the second transaction was searched as missing before the remainder of
\* the first one
MissingSearchedBeforeEarlierRemainder ==
    /\ Done
    /\ Len(requests) = 2
    /\ requests[1].transaction = 2 /\ requests[1].searchAmount = <<>>
    /\ requests[2].transaction = 1 /\ requests[2].searchAmount # <<>>

\* the searches a finished run must have made: one per missing transaction and
\* one per partial match with a remainder above 0.01
ExpectedSearches ==
    Len(missing)
    + Cardinality({c \in 1..Len(PartialMatches) : Remaining(matched[PartialMatches[c]]) > 1})

\* C26: a search that fails does not abort the run: nothing is raised, and in
\* the result returned every missing transaction and every remainder has had
\* its search and the transaction whose search failed is annotated as not
\* found
FailedSearchIsContained ==
    /\ (\E k \in 1..Len(requests) : requests[k].failed) => pc # "thrown"
    /\ (Done /\ ~skipSearch) =>
          /\ Len(requests) = ExpectedSearches
          /\ \A j \in 1..Len(missing) : missing[j].gmailStatus # <<>>
          /\ \A k \in 1..Len(requests) :
                (requests[k].failed /\ requests[k].searchAmount = <<>>) =>
                    \E j \in 1..Len(missing) :
                        /\ missing[j].transaction = requests[k].transaction
                        /\ missing[j].gmailStatus =
                               <<[status |-> "NOT FOUND", reason |-> "not_found"]>>

\* a finished run whose first search failed and whose second search was made
FailedSearchThenNextSearch ==
    /\ Done
    /\ Len(requests) = 2
    /\ requests[1].failed

\* a MatchResult that Strategy 3 produced as a partial match
IsPartialMatch(j) == matched[j].score = 70 /\ tried[matched[j].transaction] = <<1, 2, 3>>

\* C27: with recovery enabled, a finished run has made exactly one request for
\* each missing transaction, with no amount of its own (the target is the
\* amount of the transaction), exactly one for each partial match, for the
\* amount paid less the amount of the invoice, and no request for any other
\* MatchResult
OneRequestPerMissingAndPartial ==
    (Done /\ ~skipSearch) =>
        /\ \A j \in 1..Len(missing) :
              Cardinality({k \in 1..Len(requests) :
                  requests[k].transaction = missing[j].transaction}) = 1
        /\ \A j \in 1..Len(matched) :
              Cardinality({k \in 1..Len(requests) :
                  requests[k].transaction = matched[j].transaction})
                  = IF IsPartialMatch(j) THEN 1 ELSE 0
        /\ \A k \in 1..Len(requests) :
              \/ /\ requests[k].searchAmount = <<>>
                 /\ \E j \in 1..Len(missing) : missing[j].transaction = requests[k].transaction
              \/ \E j \in 1..Len(matched) :
                     /\ matched[j].transaction = requests[k].transaction
                     /\ requests[k].searchAmount = <<Remaining(matched[j])>>

\* C28: when the run is over, an invoice carries the partial flag or the
\* partial note only if it is the invoice of a MatchResult that is a partial
\* match (score 70); an invoice stamped during a scan that a stronger
\* candidate then won does not keep them
PartialFlagOnlyOnPartialMatch ==
    Done =>
        \A k \in 1..Len(invoices) :
            (invoices[k].partial \/ invoices[k].notes # <<>>) =>
                \E j \in 1..Len(matched) : matched[j].invoice = k /\ IsPartialMatch(j)

\* C29: the matching loop never raises, and every combination that Strategy 4
\* accepts (score 95) holds at least two invoices: the first one and at least
\* one additional invoice
MatchingLoopNeverRaises ==
    /\ pc # "thrown"
    /\ \A j \in 1..Len(matched) :
          matched[j].score = 95 => matched[j].additionalInvoices # <<>>

\* the transaction at hand has no counterparty and its description does not
\* hold the seller of invoice k
NoSellerEvidence(k) ==
    /\ transactions[idx].counterparty = <<>>
    /\ ~includes(toLowerCase(transactions[idx].description), toLowerCase(invoices[k].seller))

\* C30: a transaction without counterparty whose description does not hold the
\* seller of an invoice is not matched to that invoice by Strategy 3, fully or
\* partially, and the invoice is not among its candidates when Strategy 4 runs
NoMatchWithoutSellerEvidence ==
    [][(pc = "loop" /\ idx <= Len(transactions)) =>
          \A k \in 1..Len(invoices) :
              NoSellerEvidence(k) =>
                  /\ ~(/\ tried'[idx] = <<1, 2, 3>>
                       /\ Len(matched') > Len(matched)
                       /\ matched'[Len(matched')].invoice = k)
                  /\ ~(/\ tried'[idx] = <<1, 2, 3, 4>>
                       /\ IsCandidate(transactions[idx], invoices[k]))]_vars

(* ---------------------------------------------------------------------- *)
(* The tagged dialect                                                       *)
(* ---------------------------------------------------------------------- *)

MT940Done == pc = "mt940Done"

\* the array parseMT940 returns, as its caller reads it
Output == [j \in 1..Len(pushed) |-> objects[pushed[j]]]

\* line i is a :61: line that the pattern matches
WellFormed61(i) ==
    startsWith(lines[i], Tag61) /\ match61(SubSeq(lines[i], 5, Len(lines[i]))) # <<>>

WellFormedLines == SelectSeq([i \in 1..Len(lines) |-> i], WellFormed61)

RECURSIVE NarrativeFrom(_)
\* the narrative that starts at line k: the :86: lines without their tag and
\* the lines that continue them, up to the next :61: line or other tag
NarrativeFrom(k) ==
    IF k > Len(lines) THEN <<>>
    ELSE IF startsWith(lines[k], Tag86)
         THEN SubSeq(lines[k], 5, Len(lines[k])) \o NarrativeFrom(k + 1)
    ELSE IF ~startsWith(lines[k], <<":">>) THEN lines[k] \o NarrativeFrom(k + 1)
    ELSE <<>>

\* the transaction of the well-formed line i, described by its own narrative
OwnTransaction(i) ==
    parse86(newTransaction(lines[i], match61(SubSeq(lines[i], 5, Len(lines[i])))[1]),
            NarrativeFrom(i + 1))

\* C21: the statement returned holds exactly one transaction for each :61:
\* line that matches the pattern, in the order of the lines, each described
\* by the narrative lines that follow its own :61: line; a :61: line that does
\* not match yields no transaction and its narrative goes to no transaction
MalformedLineAffectsNoOther ==
    MT940Done =>
        Output = [j \in 1..Len(WellFormedLines) |-> OwnTransaction(WellFormedLines[j])]

\* the debit/credit mark of a :61: line: the letters after the date and the
\* optional entry date, two of them when the first is R (RD, RC), else one;
\* a letter that follows is the funds code
Mark(line) ==
    LET raw     == SubSeq(line, 5, Len(line))
        digits  == prefixIn(raw, Digits)
        letters == prefixIn(SubSeq(raw, Len(digits) + 1, Len(raw)), UpperLetters)
    IN  IF letters # <<>> /\ Head(letters) = "R" THEN SubSeq(letters, 1, 2)
        ELSE SubSeq(letters, 1, 1)

\* C22: the amount of every transaction returned is negative when the mark of
\* its :61: line is a debit mark and positive when it is a credit mark,
\* whatever letter follows the mark
SignFollowsMark ==
    MT940Done =>
        \A j \in 1..Len(Output) :
            /\ Output[j].amount # <<>>
            /\ Mark(Output[j].raw) \in {<<"D">>, <<"R", "D">>} => Output[j].amount[1] < 0
            /\ Mark(Output[j].raw) \in {<<"C">>, <<"R", "C">>} => Output[j].amount[1] > 0

TransactionFields ==
    {"date", "amount", "currency", "counterparty", "description", "type", "raw"}

\* DD-MM-YYYY
IsDayMonthYear(date) ==
    /\ Len(date) = 10
    /\ date[3] = "-" /\ date[6] = "-"
    /\ \A i \in {1, 2, 4, 5, 7, 8, 9, 10} : date[i] \in Digits

\* tx has the seven fields, its type is set (<<>> is the type of an object
\* that was given none) and its date is day-month-year
HasTransactionShape(tx) ==
    /\ DOMAIN tx = TransactionFields
    /\ tx.type # <<>>
    /\ IsDayMonthYear(tx.date)

\* C23: every transaction that parseBankStatement returns and every
\* transaction that parseMT940 returns carries date, amount, currency,
\* counterparty, description, type and raw, the date as day-month-year
SameTransactionShape ==
    /\ pc = "parsed" => \A j \in 1..Len(parsed) : HasTransactionShape(parsed[j])
    /\ MT940Done => \A j \in 1..Len(Output) : HasTransactionShape(Output[j])

====
